---- MODULE Spec2Model ----
(***************************************************************************)
(* Relay node of exvia-proto: handshake engine, client and peer            *)
(* directories, data router, location service, peer gossip and the         *)
(* transport adapters, modelled from the TypeScript sources.               *)
(*                                                                         *)
(* A handler of the source is an operator from a state record to a state   *)
(* record (the fields are the VARIABLES); an action applies one handler to *)
(* the current state, so every send, close and directory update a handler  *)
(* makes is part of the one step.                                          *)
(*                                                                         *)
(* Transport contract used by the model: close() is immediate (the         *)
(* session is not open afterwards and delivers no further message); the    *)
(* close event of the session is handled in a later step.                  *)
(***************************************************************************)
EXTENDS Integers, Sequences, FiniteSets, TLC

VARIABLES
    sess,                  \* session id -> connection object (WebSocketConnection + socket state)
    pendingChallenges,     \* HandshakeHandler.pendingChallenges: session -> challenge
    clients,               \* node -> InMemoryClientRepository.clients (hex key -> record)
    clientConnectionToKey, \* InMemoryClientRepository.connectionToKey (session -> hex key)
    peers,                 \* node -> InMemoryServerPeerRepository.peers (hex key -> record)
    peerConnectionToKey,   \* InMemoryServerPeerRepository.connectionToKey
    pendingQueries,        \* node -> ClientLocationService.pendingQueries (hex key -> entry)
    timers,                \* armed setTimeout handles: id -> [node, target, remaining ms]
    received,              \* number of messages handled so far
    out,                   \* what the last step did outwards: frames sent, dials started
    last,                  \* the event the last step handled
    wire,                  \* a frame under the codec: the frame, its bytes, what decodeFrame made of them
    parked,                \* history: addressee -> the frame parked for it and not forwarded since,
                           \* with the time left to its deadline
    loop,                  \* the promise continuations waiting to run, and per session the
                           \* number of frames arrived and the frame last acted on
    sdk,                   \* client SDK: the connection manager's sockets, the handler's flags
    mgr                    \* client SDK: LocalServerManager, its storage, its running operations

vars == <<sess, pendingChallenges, clients, clientConnectionToKey, peers,
          peerConnectionToKey, pendingQueries, timers, received, out, last, wire, parked,
          loop, sdk, mgr>>

----------------------------------------------------------------------------
\* Bounds of the model

MaxSess == 2
MaxFrames == 3
\* the same budget for a run of the federated delivery, whose longest exchange
\* (two handshakes, the DATA frame and the QUERY_RESPONSE) takes four frames
MaxFedFrames == 4
\* the budget of a run in which two relays are attached and both answer a query
MaxAnswerFrames == 6
\* the budget of a run in which an answer names an owner whose session was closed
\* (two handshakes, the DATA frame, the closing frame and the answer)
MaxOwnerFrames == 5

----------------------------------------------------------------------------
\* Program constants

KEY_LEN == 32
QUERY_TIMEOUT_MS == 5000
MAGIC == 88
VERSION == 1
HEADER_LEN == 120
HANDSHAKE == 1
DATA == 2
NODE_INFO == 3
SIGNED_DATA == 4
NODE_INFO_REQUEST_SERVERS == 2
NODE_INFO_RESPONSE_SERVERS == 3
NODE_INFO_ADD_SERVER == 4
NODE_INFO_QUERY_CLIENT == 5
NODE_INFO_QUERY_RESPONSE == 6
DEFAULT_PORT == 8080

----------------------------------------------------------------------------
\* Generic helpers: JS Map as a TLA+ function with a finite domain

Undefined == [undefined |-> TRUE]

MapHas(m, k) == k \in DOMAIN m
MapGet(m, k) == IF k \in DOMAIN m THEN m[k] ELSE Undefined
\* the same for a Map whose values are byte strings (never empty): get() of an
\* absent key is the empty string
NoBytes == <<>>
MapGetBytes(m, k) == IF k \in DOMAIN m THEN m[k] ELSE NoBytes
MapSet(m, k, v) == [x \in (DOMAIN m) \cup {k} |-> IF x = k THEN v ELSE m[x]]
MapDelete(m, k) == [x \in (DOMAIN m) \ {k} |-> m[x]]
EmptyMap == [x \in {} |-> Undefined]

\* A JS Map whose iteration order is observed: the entries in insertion order
\* (set() of a present key keeps its place)
OMapIndex(m, k) ==
    IF \E i \in 1..Len(m) : m[i].key = k
    THEN CHOOSE i \in 1..Len(m) : m[i].key = k
    ELSE 0
OMapHas(m, k) == OMapIndex(m, k) # 0
OMapGet(m, k) == IF OMapHas(m, k) THEN m[OMapIndex(m, k)].value ELSE Undefined

\* Uint8Array.slice(from, to) and slice(from), 0-based, end exclusive
Slice(b, from, to) ==
    LET hi == IF to > Len(b) THEN Len(b) ELSE to
    IN  IF from >= hi THEN <<>> ELSE SubSeq(b, from + 1, hi)
SliceFrom(b, from) == Slice(b, from, Len(b))

\* Buffer.from(bytes).toString('hex'): two nibbles per byte
ToHex(b) == [i \in 1..(2 * Len(b)) |->
               IF i % 2 = 1 THEN b[(i + 1) \div 2] \div 16 ELSE b[i \div 2] % 16]

----------------------------------------------------------------------------
\* Keys, challenges, signatures, addresses

Nodes == {1}
Sessions == 1..MaxSess
NoConn == 0

Bytes32(b) == [i \in 1..KEY_LEN |-> b]
ZeroKey == Bytes32(0)

\* The key pair of node n (RelayServer constructor) and the keys held by clients
ServerPublicKey(n) == Bytes32(n)
KA == Bytes32(17)
KB == Bytes32(18)

\* randomBytes(32): a fresh value for every session (nonces do not repeat)
FreshChallenge(c) == Bytes32(200 + c)

\* Ed25519, idealised: a signature names the key that made it and the message
ZeroSig == [signer |-> ZeroKey, msg |-> <<>>]
Sign(publicKey, msg) == [signer |-> publicKey, msg |-> msg]

Verify_AnySigner(publicKey, msg, signature) ==
    /\ signature # Undefined
    /\ signature # ZeroSig
    /\ signature.msg = msg

Verify(publicKey, msg, signature) ==
    /\ signature # Undefined
    /\ signature # ZeroSig
    /\ signature.signer = publicKey
    /\ signature.msg = msg

SelfUrl(n) ==
    LET
        \* config.port of node n, and `ws://localhost:${port}` (the port's digits are one element)
        Port == DEFAULT_PORT + (n - 1)
    IN
    <<119, 115, 58, 47, 47, 108, 111, 99, 97, 108, 104, 111, 115, 116, 58, Port>>
AddrX == <<120>>
AddrY == <<121>>
UnknownAddr == <<117, 110, 107, 110, 111, 119, 110>>

----------------------------------------------------------------------------
\* Frame codec (encodeFrame / decodeFrame). A buffer is the header fields, the
\* payload bytes and the buffer's byte length.

Frame(type, payload, senderId, signature) ==
    [type |-> type, payload |-> payload, senderId |-> senderId, signature |-> signature]

encodeFrame(frame) ==
    [magic     |-> MAGIC,
     version   |-> VERSION,
     type      |-> frame.type,
     len       |-> Len(frame.payload),
     senderId  |-> frame.senderId,
     signature |-> IF frame.signature = Undefined THEN ZeroSig ELSE frame.signature,
     payload   |-> frame.payload,
     byteLength |-> HEADER_LEN + Len(frame.payload)]

\* decodeFrame throws exactly when this is false
decodeOk(buffer) ==
    /\ buffer.byteLength >= HEADER_LEN
    /\ buffer.magic = MAGIC
    /\ buffer.byteLength >= HEADER_LEN + buffer.len

decodeFrame(buffer) ==
    Frame(buffer.type, Slice(buffer.payload, 0, buffer.len), buffer.senderId, buffer.signature)

----------------------------------------------------------------------------
\* The state record the handlers work on

Cur == [sess |-> sess, pendingChallenges |-> pendingChallenges, clients |-> clients,
        clientConnectionToKey |-> clientConnectionToKey, peers |-> peers,
        peerConnectionToKey |-> peerConnectionToKey, pendingQueries |-> pendingQueries,
        timers |-> timers, received |-> received,
        out |-> <<>>, parked |-> parked, loop |-> loop]

----------------------------------------------------------------------------
\* WebSocketConnection

NoSession == [owner |-> 0, readyState |-> "NONE", peerType |-> "unset",
              dialed |-> FALSE, address |-> <<>>]

\* the entries of `out`
Sent(c, frame) == [op |-> "send", conn |-> c, frame |-> frame, address |-> <<>>]
Dialed(c, address) ==
    LET
        NoFrame == Frame(0, <<>>, <<>>, Undefined)
    IN
    [op |-> "dial", conn |-> c, frame |-> NoFrame, address |-> address]

isOpen(st, c) == st.sess[c].readyState = "OPEN"

\* send(frame): encodes and writes when the socket is OPEN, otherwise only logs
ConnSend(st, c, frame) ==
    IF isOpen(st, c)
    THEN [st EXCEPT !.out = Append(@, Sent(c, frame))]
    ELSE st

ConnClose_Ignored(st, c) == st

\* close(): ws.close(); the session stops being open at once, its close event
\* comes later
ConnClose(st, c) ==
    IF st.sess[c].readyState \in {"OPEN", "CONNECTING"}
    THEN [st EXCEPT !.sess[c].readyState = "CLOSING"]
    ELSE st

----------------------------------------------------------------------------
\* InMemoryClientRepository (one per node; connections are per node already)

\* authenticatedAt (a timestamp no handler reads) is left out of the record
ClientInfo(publicKey, connection) ==
    [publicKey |-> publicKey, connection |-> connection]

ClientRepoAdd(st, n, client) ==
    LET key == ToHex(client.publicKey)
    IN  [st EXCEPT !.clients[n] = MapSet(@, key, client),
                   !.clientConnectionToKey = MapSet(@, client.connection, key)]

ClientRepoRemove(st, n, publicKeyHex) ==
    LET client == MapGet(st.clients[n], publicKeyHex)
    IN  IF client # Undefined
        THEN [st EXCEPT !.clientConnectionToKey = MapDelete(@, client.connection),
                        !.clients[n] = MapDelete(@, publicKeyHex)]
        ELSE st

ClientRepoGet(st, n, publicKeyHex) == MapGet(st.clients[n], publicKeyHex)
ClientRepoHas(st, n, publicKeyHex) == MapHas(st.clients[n], publicKeyHex)

ClientRepoGetByConnection(st, n, connection) ==
    LET key == MapGetBytes(st.clientConnectionToKey, connection)
    IN  IF key # NoBytes THEN MapGet(st.clients[n], key) ELSE Undefined

----------------------------------------------------------------------------
\* InMemoryServerPeerRepository

PeerInfo(publicKey, address, connection) ==
    [publicKey |-> publicKey, address |-> address, connection |-> connection]

ServerRepoAdd(st, n, peer) ==
    LET
        OMapSet(m, k, v) ==
            IF OMapHas(m, k)
            THEN [m EXCEPT ![OMapIndex(m, k)] = [key |-> k, value |-> v]]
            ELSE Append(m, [key |-> k, value |-> v])
    IN
    LET key == ToHex(peer.publicKey)
    IN  [st EXCEPT !.peers[n] = OMapSet(@, key, peer),
                   !.peerConnectionToKey =
                       IF peer.connection # NoConn THEN MapSet(@, peer.connection, key) ELSE @]

ServerRepoRemove(st, n, publicKeyHex) ==
    LET
        OMapDelete(m, k) ==
            IF OMapHas(m, k)
            THEN SubSeq(m, 1, OMapIndex(m, k) - 1) \o SubSeq(m, OMapIndex(m, k) + 1, Len(m))
            ELSE m
    IN
    LET peer == OMapGet(st.peers[n], publicKeyHex)
    IN  IF peer # Undefined
        THEN [st EXCEPT !.peerConnectionToKey =
                            IF peer.connection # NoConn THEN MapDelete(@, peer.connection) ELSE @,
                        !.peers[n] = OMapDelete(@, publicKeyHex)]
        ELSE st

ServerRepoGet(st, n, publicKeyHex) == OMapGet(st.peers[n], publicKeyHex)
ServerRepoHas(st, n, publicKeyHex) == OMapHas(st.peers[n], publicKeyHex)

ServerRepoGetByConnection(st, n, connection) ==
    LET key == MapGetBytes(st.peerConnectionToKey, connection)
    IN  IF key # NoBytes THEN OMapGet(st.peers[n], key) ELSE Undefined

\* getAll(): the records in Map insertion order
ServerRepoGetAll(st, n) ==
    LET
        OMapValues(m) == [i \in 1..Len(m) |-> m[i].value]
    IN
    OMapValues(st.peers[n])

----------------------------------------------------------------------------
\* ServerPeerService

FreeSessions(st) == {c \in Sessions : st.sess[c].readyState = "NONE"}
NewSession(st) == CHOOSE c \in FreeSessions(st) : \A d \in FreeSessions(st) : c <= d

\* connectToPeer(address): returns when a peer record with this address has a
\* connection, else creates the socket and the connection object, pre-marked 'server'
connectToPeer(st, n, address) ==
    IF \E i \in 1..Len(ServerRepoGetAll(st, n)) :
          /\ ServerRepoGetAll(st, n)[i].address = address
          /\ ServerRepoGetAll(st, n)[i].connection # NoConn
    THEN st
    ELSE IF FreeSessions(st) = {}
    THEN \* no session left in the model: the dial fails at once (its close
         \* event finds no record with the connection and changes nothing)
         [st EXCEPT !.out = Append(@, Dialed(NoConn, address))]
    ELSE [st EXCEPT !.sess[NewSession(st)] =
              [owner |-> n, readyState |-> "CONNECTING", peerType |-> "server",
               dialed |-> TRUE, address |-> address],
                    !.out = Append(@, Dialed(NewSession(st), address))]

RECURSIVE BroadcastFrom(_, _, _, _, _)
BroadcastFrom(st, n, frame, exclude, i) ==
    IF i > Len(ServerRepoGetAll(st, n)) THEN st
    ELSE LET peer == ServerRepoGetAll(st, n)[i]
         IN  BroadcastFrom(
                 IF /\ peer.connection # NoConn
                    /\ peer.connection # exclude
                    /\ isOpen(st, peer.connection)
                 THEN ConnSend(st, peer.connection, frame)
                 ELSE st,
                 n, frame, exclude, i + 1)

broadcastToPeers(st, n, frame, exclude) == BroadcastFrom(st, n, frame, exclude, 1)

PeerOnClose_ByIndex(st, n, c) ==
    LET key == MapGetBytes(st.peerConnectionToKey, c)
    IN  IF key = NoBytes THEN st ELSE ServerRepoRemove(st, n, key)

\* ws.onclose of a dialed socket: remove the first record that has this connection
PeerOnClose(st, n, c) ==
    LET all == ServerRepoGetAll(st, n)
        hit == {i \in 1..Len(all) : all[i].connection = c}
    IN  IF hit = {} THEN st
        ELSE LET i == CHOOSE j \in hit : \A k \in hit : j <= k
             IN  ServerRepoRemove(st, n, ToHex(all[i].publicKey))

----------------------------------------------------------------------------
\* HandshakeHandler

setPendingChallenge(st, c, challenge) ==
    [st EXCEPT !.pendingChallenges = MapSet(@, c, challenge)]

\* ws.onopen of a dialed socket (ServerPeerService.connectToPeer)
PeerOnOpen(st, n, c, challenge) ==
    ConnSend(setPendingChallenge(st, c, challenge),
             c, Frame(HANDSHAKE, challenge, ZeroKey, Undefined))

\* RelayServer.onConnection: challenge every new inbound connection
onConnection(st, n, c, challenge) ==
    ConnSend(setPendingChallenge(st, c, challenge),
             c, Frame(HANDSHAKE, challenge, ZeroKey, Undefined))

\* JS truthiness of frame.signature: a Uint8Array, zero-filled or not, is truthy
HasSignature(frame) == frame.signature # Undefined

Confirmation_NoSender(n) == Frame(HANDSHAKE, <<1>>, ZeroKey, Undefined)

\* the confirmation frame sent after a successful authentication
Confirmation(n) == Frame(HANDSHAKE, <<1>>, ServerPublicKey(n), Undefined)

handleIncomingChallenge(st, n, c, frame) ==
    ConnSend(st, c, Frame(HANDSHAKE, frame.payload, ServerPublicKey(n),
                          Sign(ServerPublicKey(n), frame.payload)))

challengeMismatch_OnlyMissing(expectedChallenge, payload) ==
    expectedChallenge = NoBytes

challengeMismatch_OnlyDifferent(expectedChallenge, payload) ==
    expectedChallenge # NoBytes /\ payload # expectedChallenge

\* the comparison of the signed payload with the challenge recorded for the
\* connection: no challenge recorded, or not the same bytes
challengeMismatch(expectedChallenge, payload) ==
    expectedChallenge = NoBytes \/ payload # expectedChallenge

handleAuthentication(st, n, c, frame) ==
    LET publicKey == frame.senderId
        isValid == Verify(publicKey, frame.payload, frame.signature)
        publicKeyHex == ToHex(publicKey)
        expectedChallenge == MapGetBytes(st.pendingChallenges, c)
        consumed == [st EXCEPT !.pendingChallenges = MapDelete(@, c)]
    IN  IF ~isValid THEN ConnClose(st, c)
        ELSE IF st.sess[c].peerType = "server"
        THEN \* a connection this node dialed
             IF challengeMismatch(expectedChallenge, frame.payload)
             THEN ConnClose(st, c)
             ELSE LET existing == ServerRepoGet(consumed, n, publicKeyHex)
                      st1 == IF existing # Undefined /\ existing.connection # NoConn
                             THEN ConnClose(consumed, existing.connection)
                             ELSE consumed
                      peer == IF existing = Undefined
                              THEN PeerInfo(publicKey, UnknownAddr, c)
                              ELSE [existing EXCEPT !.connection = c]
                  IN  ConnSend(ServerRepoAdd(st1, n, peer), c, Confirmation(n))
        ELSE \* an inbound connection (client or server)
             IF challengeMismatch(expectedChallenge, frame.payload)
             THEN ConnClose(st, c)
             ELSE LET existingServer == ServerRepoGet(consumed, n, publicKeyHex)
                  IN  IF existingServer # Undefined
                      THEN LET st1 == IF existingServer.connection # NoConn
                                      THEN ConnClose(consumed, existingServer.connection)
                                      ELSE consumed
                               st2 == ServerRepoAdd(st1, n, [existingServer EXCEPT !.connection = c])
                               st3 == [st2 EXCEPT !.sess[c].peerType = "server"]
                           IN  ConnSend(st3, c, Confirmation(n))
                      ELSE LET existingClient == ClientRepoGet(consumed, n, publicKeyHex)
                               st1 == IF existingClient # Undefined
                                      THEN ClientRepoRemove(
                                               ConnClose(consumed, existingClient.connection),
                                               n, publicKeyHex)
                                      ELSE consumed
                               st2 == ClientRepoAdd(st1, n, ClientInfo(publicKey, c))
                               st3 == [st2 EXCEPT !.sess[c].peerType = "client"]
                           IN  ConnSend(st3, c, Confirmation(n))

handleHandshakeConfirm(st, n, c, frame) == st

HandshakeHandle(st, n, c, frame) ==
    IF Len(frame.payload) = KEY_LEN /\ ~HasSignature(frame)
    THEN handleIncomingChallenge(st, n, c, frame)
    ELSE IF Len(frame.payload) = KEY_LEN /\ HasSignature(frame)
    THEN handleAuthentication(st, n, c, frame)
    ELSE IF Len(frame.payload) = 1 /\ frame.payload[1] = 1
    THEN handleHandshakeConfirm(st, n, c, frame)
    ELSE ConnClose(st, c)

----------------------------------------------------------------------------
\* ClientLocationService

\* setTimeout returns a handle that no armed timer has
NewTimer(st) == CHOOSE t \in 1..(Cardinality(DOMAIN st.timers) + 1) : t \notin DOMAIN st.timers

QueryPending_Never(st, n, targetHex) == FALSE

\* pendingQueries.has(targetHex)
QueryPending(st, n, targetHex) == MapHas(st.pendingQueries[n], targetHex)

forwardToRemoteClient_ExcludesSender(st, n, targetKey, originalFrame, sender) ==
    LET targetHex == ToHex(targetKey)
    IN  IF QueryPending(st, n, targetHex) THEN st
        ELSE LET frameCopy == Frame(originalFrame.type, originalFrame.payload,
                                    originalFrame.senderId,
                                    IF HasSignature(originalFrame)
                                    THEN originalFrame.signature ELSE Undefined)
                 timer == NewTimer(st)
                 st1 == [st EXCEPT
                           !.timers = MapSet(@, timer,
                               [node |-> n, target |-> targetHex,
                                remaining |-> QUERY_TIMEOUT_MS]),
                           !.pendingQueries[n] = MapSet(@, targetHex,
                               [frame |-> frameCopy, timer |-> timer, sender |-> sender])]
             IN  broadcastToPeers(st1, n,
                     Frame(NODE_INFO, <<NODE_INFO_QUERY_CLIENT>> \o targetKey,
                           ServerPublicKey(n), Undefined),
                     sender.connection)

forwardToRemoteClient(st, n, targetKey, originalFrame, sender) ==
    LET targetHex == ToHex(targetKey)
    IN  IF QueryPending(st, n, targetHex) THEN st
        ELSE LET frameCopy == Frame(originalFrame.type, originalFrame.payload,
                                    originalFrame.senderId,
                                    IF HasSignature(originalFrame)
                                    THEN originalFrame.signature ELSE Undefined)
                 timer == NewTimer(st)
                 st1 == [st EXCEPT
                           !.timers = MapSet(@, timer,
                               [node |-> n, target |-> targetHex,
                                remaining |-> QUERY_TIMEOUT_MS]),
                           !.pendingQueries[n] = MapSet(@, targetHex,
                               [frame |-> frameCopy, timer |-> timer, sender |-> sender])]
             IN  broadcastToPeers(st1, n,
                     Frame(NODE_INFO, <<NODE_INFO_QUERY_CLIENT>> \o targetKey,
                           ServerPublicKey(n), Undefined),
                     NoConn)

\* the setTimeout callback of forwardToRemoteClient
QueryTimeout(st, n, targetHex) ==
    [st EXCEPT !.pendingQueries[n] = MapDelete(@, targetHex)]

clearTimeout_Forgotten(st, timer) == st

clearTimeout(st, timer) == [st EXCEPT !.timers = MapDelete(@, timer)]

handleQueryResponse_NoForward(st, n, frame) ==
    LET payload == frame.payload
        targetHex == ToHex(Slice(payload, 2, 2 + KEY_LEN))
        pending == MapGet(st.pendingQueries[n], targetHex)
    IN  IF Len(payload) < 1 + 1 + KEY_LEN THEN st
        ELSE IF pending = Undefined THEN st
        ELSE [clearTimeout(st, pending.timer) EXCEPT
                 !.pendingQueries[n] = MapDelete(@, targetHex)]

handleQueryResponse_KeepsEntry(st, n, frame) ==
    LET payload == frame.payload
        pending == MapGet(st.pendingQueries[n], ToHex(Slice(payload, 2, 2 + KEY_LEN)))
        targetServer == ServerRepoGet(st, n, ToHex(Slice(payload, 2 + KEY_LEN, 2 + KEY_LEN + KEY_LEN)))
    IN  IF Len(payload) < 1 + 1 + KEY_LEN THEN st
        ELSE IF pending = Undefined THEN st
        ELSE IF payload[2] = 1 /\ Len(payload) >= 1 + 1 + KEY_LEN + KEY_LEN
                /\ targetServer # Undefined /\ targetServer.connection # NoConn
        THEN ConnSend(st, targetServer.connection,
                      Frame(DATA, pending.frame.payload, pending.frame.senderId, Undefined))
        ELSE st

handleQueryResponse_AnyStatus(st, n, frame) ==
    LET payload == frame.payload
        targetHex == ToHex(Slice(payload, 2, 2 + KEY_LEN))
        pending == MapGet(st.pendingQueries[n], targetHex)
    IN  IF Len(payload) < 1 + 1 + KEY_LEN THEN st
        ELSE IF pending = Undefined THEN st
        ELSE LET st2 == [clearTimeout(st, pending.timer) EXCEPT
                            !.pendingQueries[n] = MapDelete(@, targetHex)]
                 targetServer == ServerRepoGet(st2, n,
                                    ToHex(Slice(payload, 2 + KEY_LEN, 2 + KEY_LEN + KEY_LEN)))
             IN  IF Len(payload) >= 1 + 1 + KEY_LEN + KEY_LEN
                    /\ targetServer # Undefined /\ targetServer.connection # NoConn
                 THEN ConnSend(st2, targetServer.connection,
                               Frame(DATA, pending.frame.payload, pending.frame.senderId,
                                     Undefined))
                 ELSE st2

handleQueryResponse(st, n, frame) ==
    LET payload == frame.payload
        status == payload[2]
        targetKey == Slice(payload, 2, 2 + KEY_LEN)
        targetHex == ToHex(targetKey)
        pending == MapGet(st.pendingQueries[n], targetHex)
    IN  IF Len(payload) < 1 + 1 + KEY_LEN THEN st
        ELSE IF pending = Undefined THEN st
        ELSE LET st1 == clearTimeout(st, pending.timer)
                 st2 == [st1 EXCEPT !.pendingQueries[n] = MapDelete(@, targetHex)]
             IN  IF status = 1 /\ Len(payload) >= 1 + 1 + KEY_LEN + KEY_LEN
                 THEN LET serverKey == Slice(payload, 2 + KEY_LEN, 2 + KEY_LEN + KEY_LEN)
                          targetServer == ServerRepoGet(st2, n, ToHex(serverKey))
                      IN  IF targetServer # Undefined /\ targetServer.connection # NoConn
                          THEN ConnSend(st2, targetServer.connection,
                                        Frame(DATA, pending.frame.payload,
                                              pending.frame.senderId, Undefined))
                          ELSE st2
                 ELSE st2

----------------------------------------------------------------------------
\* DataHandler

DeliveredFrame_Unstripped(frame) == Frame(DATA, frame.payload, frame.senderId, Undefined)

\* the frame handed to a local addressee
DeliveredFrame(frame) ==
    Frame(DATA, SliceFrom(frame.payload, KEY_LEN), frame.senderId, Undefined)

DataHandle_Ungated(st, n, c, frame) ==
    LET senderClient == ClientRepoGetByConnection(st, n, c)
        senderServer == ServerRepoGetByConnection(st, n, c)
        targetKey == Slice(frame.payload, 0, KEY_LEN)
        targetClient == ClientRepoGet(st, n, ToHex(targetKey))
    IN  IF Len(frame.payload) < KEY_LEN THEN st
        ELSE IF targetClient # Undefined
        THEN ConnSend(st, targetClient.connection, DeliveredFrame(frame))
        ELSE forwardToRemoteClient(st, n, targetKey, frame,
                 IF senderClient # Undefined THEN senderClient ELSE senderServer)

DataHandle_StampsKey(st, n, c, frame) ==
    LET senderClient == ClientRepoGetByConnection(st, n, c)
        senderServer == ServerRepoGetByConnection(st, n, c)
        targetKey == Slice(frame.payload, 0, KEY_LEN)
        targetClient == ClientRepoGet(st, n, ToHex(targetKey))
        stamped == IF senderClient # Undefined
                   THEN [frame EXCEPT !.senderId = senderClient.publicKey]
                   ELSE frame
    IN  IF senderClient = Undefined /\ senderServer = Undefined THEN ConnClose(st, c)
        ELSE IF Len(frame.payload) < KEY_LEN THEN st
        ELSE IF targetClient # Undefined
        THEN ConnSend(st, targetClient.connection, DeliveredFrame(stamped))
        ELSE forwardToRemoteClient(st, n, targetKey, stamped,
                 IF senderClient # Undefined THEN senderClient ELSE senderServer)

DataHandle(st, n, c, frame) ==
    LET senderClient == ClientRepoGetByConnection(st, n, c)
        senderServer == ServerRepoGetByConnection(st, n, c)
        targetKey == Slice(frame.payload, 0, KEY_LEN)
        targetClient == ClientRepoGet(st, n, ToHex(targetKey))
    IN  IF senderClient = Undefined /\ senderServer = Undefined THEN ConnClose(st, c)
        ELSE IF Len(frame.payload) < KEY_LEN THEN st
        ELSE IF targetClient # Undefined
        THEN ConnSend(st, targetClient.connection, DeliveredFrame(frame))
        ELSE forwardToRemoteClient(st, n, targetKey, frame,
                 IF senderClient # Undefined THEN senderClient ELSE senderServer)

----------------------------------------------------------------------------
\* NodeInfoHandler

RECURSIVE ConcatEntries(_, _)
ConcatEntries(servers, i) ==
    IF i > Len(servers) THEN <<>>
    ELSE servers[i].publicKey \o <<Len(servers[i].address) % 256>> \o servers[i].address
         \o ConcatEntries(servers, i + 1)

UInt16BE(v) == <<(v \div 256) % 256, v % 256>>
ReadUInt16BE(payload, offset) == payload[offset + 1] * 256 + payload[offset + 2]

handleRequestServers_Unfiltered(st, n, c, frame) ==
    LET servers == ServerRepoGetAll(st, n)
    IN  ConnSend(st, c,
            Frame(NODE_INFO,
                  <<NODE_INFO_RESPONSE_SERVERS>> \o UInt16BE(Len(servers))
                      \o ConcatEntries(servers, 1),
                  ServerPublicKey(n), Undefined))

handleRequestServers(st, n, c, frame) ==
    LET servers == SelectSeq(ServerRepoGetAll(st, n),
                             LAMBDA peer : peer.address # <<>> /\ peer.address # UnknownAddr)
    IN  ConnSend(st, c,
            Frame(NODE_INFO,
                  <<NODE_INFO_RESPONSE_SERVERS>> \o UInt16BE(Len(servers))
                      \o ConcatEntries(servers, 1),
                  ServerPublicKey(n), Undefined))

RECURSIVE ResponseServersLoop(_, _, _, _, _, _)
ResponseServersLoop(st, n, payload, count, i, offset) ==
    IF i >= count THEN st
    ELSE IF offset + KEY_LEN > Len(payload) THEN st
    ELSE IF offset + KEY_LEN >= Len(payload) THEN st
    ELSE LET pubKey == Slice(payload, offset, offset + KEY_LEN)
             addrLen == payload[offset + KEY_LEN + 1]
             start == offset + KEY_LEN + 1
         IN  IF start + addrLen > Len(payload) THEN st
             ELSE LET addr == Slice(payload, start, start + addrLen)
                      st1 == IF /\ ~ServerRepoHas(st, n, ToHex(pubKey))
                                /\ pubKey # ServerPublicKey(n)
                             THEN connectToPeer(
                                      ServerRepoAdd(st, n, PeerInfo(pubKey, addr, NoConn)),
                                      n, addr)
                             ELSE st
                  IN  ResponseServersLoop(st1, n, payload, count, i + 1, start + addrLen)

handleResponseServers_AnySession(st, n, c, frame) ==
    IF Len(frame.payload) < 3 THEN st
    ELSE ResponseServersLoop(st, n, frame.payload, ReadUInt16BE(frame.payload, 1), 0, 3)

handleResponseServers(st, n, c, frame) ==
    LET senderServer == ServerRepoGetByConnection(st, n, c)
    IN  IF senderServer = Undefined THEN st
        ELSE IF Len(frame.payload) < 3 THEN st
        ELSE ResponseServersLoop(st, n, frame.payload, ReadUInt16BE(frame.payload, 1), 0, 3)

handleAddServer_NoLengthCheck(st, n, c, frame, senderClient, senderServer) ==
    LET payload == frame.payload
        address == Slice(payload, 2, 2 + payload[2])
        all == ServerRepoGetAll(st, n)
    IN  IF senderClient = Undefined /\ senderServer = Undefined THEN st
        ELSE IF Len(payload) < 2 THEN st
        ELSE IF \E i \in 1..Len(all) : all[i].address = address THEN st
        ELSE IF address = SelfUrl(n) THEN st
        ELSE connectToPeer(st, n, address)

handleAddServer(st, n, c, frame, senderClient, senderServer) ==
    LET payload == frame.payload
        addrLen == payload[2]
        address == Slice(payload, 2, 2 + addrLen)
        all == ServerRepoGetAll(st, n)
    IN  IF senderClient = Undefined /\ senderServer = Undefined THEN st
        ELSE IF Len(payload) < 2 THEN st
        ELSE IF Len(payload) < 2 + addrLen THEN st
        ELSE IF \E i \in 1..Len(all) : all[i].address = address THEN st
        ELSE IF address = SelfUrl(n) THEN st
        ELSE connectToPeer(st, n, address)

handleQueryClient_NeverFound(st, n, c, frame) ==
    IF Len(frame.payload) < 1 + KEY_LEN THEN st
    ELSE ConnSend(st, c, Frame(NODE_INFO,
                               <<NODE_INFO_QUERY_RESPONSE, 0>> \o Slice(frame.payload, 1, 1 + KEY_LEN),
                               ServerPublicKey(n), Undefined))

handleQueryClient_OwnerAlways(st, n, c, frame) ==
    LET targetKey == Slice(frame.payload, 1, 1 + KEY_LEN)
        found == ClientRepoHas(st, n, ToHex(targetKey))
    IN  IF Len(frame.payload) < 1 + KEY_LEN THEN st
        ELSE ConnSend(st, c, Frame(NODE_INFO,
                                   <<NODE_INFO_QUERY_RESPONSE, IF found THEN 1 ELSE 0>>
                                      \o targetKey \o ServerPublicKey(n),
                                   ServerPublicKey(n), Undefined))

handleQueryClient(st, n, c, frame) ==
    LET payload == frame.payload
        targetKey == Slice(payload, 1, 1 + KEY_LEN)
        found == ClientRepoHas(st, n, ToHex(targetKey))
        responsePayload ==
            <<NODE_INFO_QUERY_RESPONSE, IF found THEN 1 ELSE 0>> \o targetKey
                \o (IF found THEN ServerPublicKey(n) ELSE <<>>)
    IN  IF Len(payload) < 1 + KEY_LEN THEN st
        ELSE ConnSend(st, c, Frame(NODE_INFO, responsePayload, ServerPublicKey(n), Undefined))

NodeInfoHandleQueryResponse(st, n, c, frame) == handleQueryResponse(st, n, frame)

NodeInfoHandle(st, n, c, frame) ==
    LET senderClient == ClientRepoGetByConnection(st, n, c)
        senderServer == ServerRepoGetByConnection(st, n, c)
        payload == frame.payload
        subType == payload[1]
    IN  IF senderClient = Undefined /\ senderServer = Undefined THEN ConnClose(st, c)
        ELSE IF Len(payload) = 0 THEN st
        ELSE IF subType = NODE_INFO_REQUEST_SERVERS THEN handleRequestServers(st, n, c, frame)
        ELSE IF subType = NODE_INFO_RESPONSE_SERVERS THEN handleResponseServers(st, n, c, frame)
        ELSE IF subType = NODE_INFO_ADD_SERVER
        THEN handleAddServer(st, n, c, frame, senderClient, senderServer)
        ELSE IF subType = NODE_INFO_QUERY_CLIENT THEN handleQueryClient(st, n, c, frame)
        ELSE IF subType = NODE_INFO_QUERY_RESPONSE
        THEN NodeInfoHandleQueryResponse(st, n, c, frame)
        ELSE st

----------------------------------------------------------------------------
\* MessageDispatcher

dispatch(st, n, c, frame) ==
    IF frame.type = HANDSHAKE THEN HandshakeHandle(st, n, c, frame)
    ELSE IF frame.type = DATA THEN DataHandle(st, n, c, frame)
    ELSE IF frame.type = NODE_INFO THEN NodeInfoHandle(st, n, c, frame)
    ELSE IF frame.type = SIGNED_DATA THEN DataHandle(st, n, c, frame)
    ELSE ConnClose(st, c)

\* The 'message' listeners. WebSocketServerAdapter (inbound sockets) closes the
\* connection when decodeFrame throws; ServerPeerService.connectToPeer (dialed
\* sockets) only logs.
AdapterOnMessage(st, n, c, buffer) ==
    IF decodeOk(buffer) THEN dispatch(st, n, c, decodeFrame(buffer)) ELSE ConnClose(st, c)

PeerOnMessage(st, n, c, buffer) ==
    IF decodeOk(buffer) THEN dispatch(st, n, c, decodeFrame(buffer)) ELSE st

\* The 'close' listeners: the adapter's only logs
AdapterOnClose(st, n, c) == st

----------------------------------------------------------------------------
\* What the environment can put on a session of node 1: frames of every
\* type and shape the handlers distinguish, signed with the keys it holds

KP == ServerPublicKey(2)     \* a remote relay's key
KQ == Bytes32(3)             \* a relay known only from advertisements
KX == Bytes32(19)            \* a key that is connected nowhere
Hi == <<104, 105>>

ResponseServers(entries) ==
    <<NODE_INFO_RESPONSE_SERVERS>> \o UInt16BE(Len(entries))
        \o ConcatEntries(entries, 1)
Advert(publicKey, address) == [publicKey |-> publicKey, address |-> address]

\* the answer of the holder of key k to the challenge sent on session c
Proof(k, c) == Frame(HANDSHAKE, FreshChallenge(c), k, Sign(k, FreshChallenge(c)))
OtherSession(c) == IF c = 1 THEN 2 ELSE 1

\* Inputs of the handshake-and-directories specification
DirectoryInputs(c) ==
    LET
        GossipFrames ==
            {Frame(NODE_INFO, p, KP, ZeroSig) : p \in
                {<<>>,
                 <<NODE_INFO_REQUEST_SERVERS>>,
                 ResponseServers(<<Advert(KQ, AddrX)>>),
                 ResponseServers(<<Advert(KA, AddrY), Advert(ServerPublicKey(1), AddrX)>>),
                 ResponseServers(<<Advert(KQ, SelfUrl(1))>>),
                 <<NODE_INFO_RESPONSE_SERVERS, 0, 1>> \o KQ,
                 <<NODE_INFO_ADD_SERVER, Len(AddrX)>> \o AddrX,
                 <<NODE_INFO_ADD_SERVER, Len(SelfUrl(1))>> \o SelfUrl(1),
                 <<NODE_INFO_ADD_SERVER, 9>> \o AddrX,
                 <<9>>}}
        \* buffers decodeFrame rejects: bad magic, shorter than a header, shorter than
        \* header + payload_len
        BadBuffers ==
            {[encodeFrame(Frame(DATA, KA \o Hi, KA, ZeroSig)) EXCEPT !.magic = 0],
             [encodeFrame(Frame(DATA, <<>>, KA, ZeroSig)) EXCEPT !.byteLength = HEADER_LEN - 1],
             [encodeFrame(Frame(DATA, KA \o Hi, KA, ZeroSig)) EXCEPT !.len = KEY_LEN + 3]}
        \* Handshake traffic on session c: proofs for this session's challenge, a proof
        \* that was made for another session, and the malformed shapes
        HandshakeFrames ==
            {Proof(k, c) : k \in {KA, KB, KP}}
            \cup {Proof(KA, OtherSession(c)),
                  Frame(HANDSHAKE, FreshChallenge(c), KA, Sign(KB, FreshChallenge(c))),
                  Frame(HANDSHAKE, FreshChallenge(c), KA, Sign(KA, FreshChallenge(OtherSession(c)))),
                  Frame(HANDSHAKE, FreshChallenge(c), ZeroKey, ZeroSig),
                  Frame(HANDSHAKE, <<1>>, KP, ZeroSig),
                  Frame(HANDSHAKE, <<>>, KA, ZeroSig)}
    IN
    {encodeFrame(f) : f \in HandshakeFrames \cup GossipFrames
                             \cup {Frame(DATA, KA \o Hi, KB, ZeroSig),
                                   Frame(9, <<>>, KA, ZeroSig)}}
    \cup BadBuffers

\* Inputs of the routing specification: well-formed proofs, data and queries
RoutingInputs(c) ==
    LET
        DataFrames ==
            {Frame(DATA, KB \o Hi, KA, ZeroSig),
             Frame(DATA, KX \o Hi, KA, ZeroSig),
             Frame(DATA, KX \o <<>>, KB, ZeroSig),
             Frame(DATA, <<7>>, KA, ZeroSig),
             Frame(SIGNED_DATA, KB \o Hi, KA, Sign(KA, Hi))}
        ResponseFrames ==
            {Frame(NODE_INFO, p, KP, ZeroSig) : p \in
                {<<NODE_INFO_QUERY_RESPONSE, 1>> \o KX \o KP,
                 <<NODE_INFO_QUERY_RESPONSE, 1>> \o KX \o KQ,
                 <<NODE_INFO_QUERY_RESPONSE, 0>> \o KX,
                 <<NODE_INFO_QUERY_RESPONSE, 1>>}}
    IN
    {encodeFrame(f) : f \in {Proof(k, c) : k \in {KA, KB, KP}}
                             \cup DataFrames \cup ResponseFrames}

\* Inputs of the federated-delivery specification: what a remote relay (key KP)
\* and a client (key KA) send in a delivery across two relays, this node being
\* the sender's relay (KA writes to KX, who is elsewhere) or the addressee's
\* (KB, who is elsewhere, writes to KA)
FederationInputs(c) ==
    {encodeFrame(f) : f \in {Proof(k, c) : k \in {KA, KP}}
                             \cup {Frame(DATA, KX \o Hi, KA, ZeroSig),
                                   Frame(DATA, KA \o Hi, KB, ZeroSig),
                                   Frame(NODE_INFO, <<NODE_INFO_QUERY_CLIENT>> \o KA, KP, ZeroSig),
                                   Frame(NODE_INFO, <<NODE_INFO_QUERY_RESPONSE, 1>> \o KX \o KP,
                                         KP, ZeroSig)}}

----------------------------------------------------------------------------
\* The frame codec byte by byte (encodeFrame / decodeFrame of client.ts). The
\* relay model above carries a buffer as its header fields; here the buffer is
\* the byte string itself: magic, version, type, flags, the payload length as
\* four big-endian bytes, 16 bytes of message id, 32 of sender id, 64 of
\* signature, then the payload. An omitted signature is NoBytes.

SIG_LEN == 64
MSGID_LEN == 16

Zeros(n) == [i \in 1..n |-> 0]

\* DataView.setUint32(_, v, false) / getUint32(_, false), for values below 2^31
UInt32BE_LittleEndian(v) ==
    <<v % 256, (v \div 256) % 256, (v \div 65536) % 256, (v \div 16777216) % 256>>
UInt32BE(v) ==
    <<(v \div 16777216) % 256, (v \div 65536) % 256, (v \div 256) % 256, v % 256>>
ReadUInt32BE(b, offset) ==
    b[offset + 1] * 16777216 + b[offset + 2] * 65536 + b[offset + 3] * 256 + b[offset + 4]

\* new Uint8Array(header, at, n).set(bytes): bytes shorter than n leave zeros
SetInto(n, bytes) == [i \in 1..n |-> IF i <= Len(bytes) THEN bytes[i] ELSE 0]

encodeFrameBytes(frame) ==
    LET signature == IF frame.signature = NoBytes THEN Zeros(SIG_LEN) ELSE frame.signature
    IN  <<MAGIC, VERSION, frame.type % 256, 0>>
          \o UInt32BE(Len(frame.payload))
          \o Zeros(MSGID_LEN)
          \o SetInto(KEY_LEN, frame.senderId)
          \o SetInto(SIG_LEN, signature)
          \o frame.payload

\* which of its three errors decodeFrame throws, or "none"
decodeError_VersionChecked(b) ==
    IF Len(b) < HEADER_LEN THEN "frame too short"
    ELSE IF b[1] # MAGIC \/ b[2] # VERSION THEN "bad magic"
    ELSE IF Len(b) < HEADER_LEN + ReadUInt32BE(b, 4) THEN "incomplete frame"
    ELSE "none"
decodeError(b) ==
    IF Len(b) < HEADER_LEN THEN "frame too short"
    ELSE IF b[1] # MAGIC THEN "bad magic"
    ELSE IF Len(b) < HEADER_LEN + ReadUInt32BE(b, 4) THEN "incomplete frame"
    ELSE "none"

decodeFrameBytes(b) ==
    LET len == ReadUInt32BE(b, 4)
    IN  Frame(b[3], Slice(b, HEADER_LEN, HEADER_LEN + len),
              Slice(b, 24, 24 + KEY_LEN), Slice(b, 56, 56 + SIG_LEN))

\* the frames handed to encodeFrame and the ways a buffer differs from an
\* encoded frame when it reaches decodeFrame
MaxPayloadLen == 300
Payload(n) == [i \in 1..n |-> (7 * i) % 256]
CodecFrames ==
    LET
        Sig64(b) == [i \in 1..SIG_LEN |-> b]
        CodecTypes == {HANDSHAKE, DATA, SIGNED_DATA, 255}
        CodecPayloads == {Payload(0), Payload(1), KA \o Hi, Payload(MaxPayloadLen)}
        CodecSenders == {ZeroKey, KA}
        CodecSignatures == {NoBytes, Zeros(SIG_LEN), Sig64(9)}
    IN
    {Frame(t, p, s, g) : t \in CodecTypes, p \in CodecPayloads,
                                    s \in CodecSenders, g \in CodecSignatures}

SetByte(b, offset, v) == [b EXCEPT ![offset + 1] = v]
Tampered(b, how) ==
    CASE how = "cut header"     -> SubSeq(b, 1, HEADER_LEN - 1)
      [] how = "drop last byte" -> SubSeq(b, 1, Len(b) - 1)
      [] how = "magic"          -> SetByte(b, 0, 0)
      [] how = "version"        -> SetByte(b, 1, VERSION + 1)
      [] how = "version 0"      -> SetByte(b, 1, 0)
      [] how = "length + 1"     ->
            SubSeq(b, 1, 4) \o UInt32BE(ReadUInt32BE(b, 4) + 1) \o SubSeq(b, 9, Len(b))
      [] how = "length - 1"     ->
            SubSeq(b, 1, 4) \o UInt32BE(ReadUInt32BE(b, 4) - 1) \o SubSeq(b, 9, Len(b))
      [] how = "length + 2^24"  -> SetByte(b, 4, 1)
      [] how = "extra byte"     -> b \o <<0>>

NoWire == [stage |-> "none", frame |-> Frame(0, <<>>, <<>>, NoBytes), buffer |-> <<>>,
           tampering |-> "none", error |-> "none", decoded |-> Frame(0, <<>>, <<>>, NoBytes)]

NoBuffer == encodeFrame(Frame(0, <<>>, ZeroKey, Undefined))
Event(kind, c, buffer) == [kind |-> kind, conn |-> c, buffer |-> buffer]

\* The event loop before any message: no continuation waits, no frame arrived
NoLoop ==
    [jobs |-> <<>>,
     arrived |-> [c \in Sessions |-> 0],
     acted |-> [c \in Sessions |-> 0],
     running |-> [conn |-> NoConn, seq |-> 0, effect |-> FALSE]]

----------------------------------------------------------------------------
\* Client SDK (MessageHandler): what a client puts on the wire and the
\* 'message' events it emits for a frame it receives

\* MessageHandler.sendData, after the handshake completed
SdkSendData(publicKey, target, payload) ==
    Frame(DATA, target \o payload, publicKey, Undefined)

\* MessageHandler.handleFrame for the frame types a relay sends to a client in
\* a DATA delivery; HANDSHAKE and NODE_INFO frames emit no 'message' event
SdkHandleFrame(frame) ==
    LET
        \* MessageHandler.handleData: the emitted 'message' events
        SdkHandleData ==
            IF Len(frame.payload) < KEY_LEN THEN <<>>
            ELSE <<[event |-> "message", from |-> frame.senderId,
                    content |-> SliceFrom(frame.payload, KEY_LEN)]>>
    IN
    IF frame.type = DATA THEN SdkHandleData ELSE <<>>

\* ws.onmessage of the SDK's connection manager on the far end of session c,
\* for the frames one step of the relay sent there
RECURSIVE SdkOnMessages(_, _, _)
SdkOnMessages(sent, c, i) ==
    IF i > Len(sent) THEN <<>>
    ELSE (IF sent[i].op = "send" /\ sent[i].conn = c
             /\ decodeOk(encodeFrame(sent[i].frame))
          THEN SdkHandleFrame(decodeFrame(encodeFrame(sent[i].frame)))
          ELSE <<>>)
         \o SdkOnMessages(sent, c, i + 1)

\* Client SDK (WebSocketConnectionManager, MessageHandler, Client): the sockets
\* the connection manager made, the one it holds in `ws`, and the handler's
\* handshake flags. A socket is named by its position in `sockets`.

MaxSockets == 3

NoCall == [op |-> "none", outcome |-> "none", socket |-> 0]

\* the fields after `new Client(storage)`; `confirmed` is history: the sockets
\* on which the confirmation [0x01] arrived
NoSdk ==
    [sockets |-> <<>>, ws |-> 0, connectionPromise |-> FALSE,
     pendingChallenge |-> NoBytes, handshakeCompleted |-> FALSE,
     confirmed |-> {}, call |-> NoCall]

\* WebSocketConnectionManager.isConnected
SdkSocketOpen(s) == s.ws # 0 /\ s.sockets[s.ws] = "OPEN"

\* WebSocketConnectionManager.send, as the outcome of the call `op`
SdkSend(s, op) ==
    [s EXCEPT !.call = [op |-> op,
                        outcome |-> IF SdkSocketOpen(s) THEN "sent"
                                    ELSE "WebSocket is not open",
                        socket |-> s.ws]]

\* Client.isConnected
ClientIsConnected(s) == SdkSocketOpen(s) /\ s.handshakeCompleted

\* LocalServerManager: the list and the selection in memory, what the storage
\* holds under 'sdk:servers' and 'sdk:selectedServer', and the operations
\* started and not yet settled. `stored` is history: the list the storage held
\* when the manager was constructed. An operation is an async function: it runs
\* up to its next `await`, and resumes in a later turn of the event loop.
MaxOps == 2

\* null (a missing storage item, no selected server)
NullItem == "null"

NoItem == [has |-> FALSE, list |-> <<>>]
Item(list) == [has |-> TRUE, list |-> list]

NoMgr ==
    [servers |-> <<>>, selected |-> NullItem, loaded |-> FALSE,
     storage |-> [servers |-> NoItem, selected |-> NullItem],
     stored |-> <<>>, ops |-> <<>>]

\* Array.prototype.includes
Includes(list, x) == \E j \in DOMAIN list : list[j] = x

\* ensureLoaded after its await
ensureLoaded(m, i) ==
    [m EXCEPT !.servers = IF m.ops[i].saved.has THEN m.ops[i].saved.list ELSE <<>>,
              !.selected = m.ops[i].savedSelected,
              !.loaded = TRUE,
              !.ops[i].pc = "loaded"]

\* saveServers up to its await: storage.setItem(storageKey, JSON.stringify(servers))
saveServers(m, i) ==
    [m EXCEPT !.storage.servers = Item(m.servers), !.ops[i].pc = "saving"]

\* addServer after `await this.ensureLoaded()`
addServer(m, i) ==
    IF ~Includes(m.servers, m.ops[i].address)
    THEN saveServers([m EXCEPT !.servers = Append(@, m.ops[i].address)], i)
    ELSE [m EXCEPT !.ops[i].pc = "done"]

\* setSelectedServer after `await this.ensureLoaded()`, for operation i; `then`
\* is where the operation waits while the storage call is in flight
setSelectedServer(m, i, address, then) ==
    IF address # NullItem /\ ~Includes(m.servers, address)
    THEN [m EXCEPT !.ops[i].pc = "rejected"]
    ELSE [m EXCEPT !.selected = address,
                   !.storage.selected = address,
                   !.ops[i].pc = then]

\* removeServer after `await this.ensureLoaded()`: indexOf (0 when absent),
\* splice(index, 1), and the call of setSelectedServer, which runs up to that
\* function's own `await this.ensureLoaded()`
removeServer(m, i) ==
    LET index == IF Includes(m.servers, m.ops[i].address)
                 THEN CHOOSE j \in DOMAIN m.servers :
                          /\ m.servers[j] = m.ops[i].address
                          /\ \A h \in 1..(j - 1) : m.servers[h] # m.ops[i].address
                 ELSE 0
        rest == [j \in 1..(Len(m.servers) - 1) |->
                    IF j < index THEN m.servers[j] ELSE m.servers[j + 1]]
        m1 == [m EXCEPT !.servers = rest]
    IN  IF index = 0 THEN [m EXCEPT !.ops[i].pc = "done"]
        ELSE IF m.selected = m.ops[i].address
        THEN [m1 EXCEPT !.ops[i].inner = IF rest # <<>> THEN rest[1] ELSE NullItem,
                        !.ops[i].pc = "innerLoaded"]
        ELSE saveServers(m1, i)

----------------------------------------------------------------------------
\* Initial state and the steps of node 1 against its environment

Init ==
    /\ sess = [c \in Sessions |-> NoSession]
    /\ pendingChallenges = EmptyMap
    /\ clients = [n \in Nodes |-> EmptyMap]
    /\ clientConnectionToKey = EmptyMap
    /\ peers = [n \in Nodes |-> <<>>]
    /\ peerConnectionToKey = EmptyMap
    /\ pendingQueries = [n \in Nodes |-> EmptyMap]
    /\ timers = EmptyMap
    /\ received = 0
    /\ out = <<>>
    /\ last = Event("idle", NoConn, NoBuffer)
    /\ wire = NoWire
    /\ parked = EmptyMap
    /\ loop = NoLoop
    /\ sdk = NoSdk
    /\ mgr = NoMgr

\* One event is handled at a time (the node is a single-threaded event loop).
\* A step leaves in `last` and `out` what it handled and what it sent; `Settle`
\* clears them before the next event is taken.
Idle == last.kind = "idle"
Done(st, ev) ==
    LET
        Commit ==
            /\ sess' = st.sess
            /\ pendingChallenges' = st.pendingChallenges
            /\ clients' = st.clients
            /\ clientConnectionToKey' = st.clientConnectionToKey
            /\ peers' = st.peers
            /\ peerConnectionToKey' = st.peerConnectionToKey
            /\ pendingQueries' = st.pendingQueries
            /\ timers' = st.timers
            /\ received' = st.received
            /\ out' = st.out
            /\ last' = ev
            /\ wire' = wire
            /\ parked' = st.parked
            /\ loop' = st.loop
            /\ sdk' = sdk
            /\ mgr' = mgr
    IN
    Idle /\ Commit

Settle ==
    /\ ~Idle
    /\ last' = Event("idle", NoConn, NoBuffer)
    /\ out' = <<>>
    /\ UNCHANGED <<sess, pendingChallenges, clients, clientConnectionToKey, peers,
                   peerConnectionToKey, pendingQueries, timers, received, wire, parked, loop, sdk, mgr>>

\* wss.on('connection'): a new inbound socket, challenged by RelayServer.onConnection
Accept(n) ==
    /\ FreeSessions(Cur) # {}
    /\ LET c == NewSession(Cur)
           st1 == [Cur EXCEPT !.sess[c] =
                      [owner |-> n, readyState |-> "OPEN", peerType |-> "unset",
                       dialed |-> FALSE, address |-> <<>>]]
       IN  Done(onConnection(st1, n, c, FreshChallenge(c)), Event("connection", c, NoBuffer))

\* RelayServer.start(): dial the seed peer of the configuration
StartSeed(n) ==
    /\ \A c \in Sessions : sess[c].readyState = "NONE"
    /\ Done(connectToPeer(Cur, n, AddrX), Event("start", NoConn, NoBuffer))

\* a dialed socket opens
DialOpen(c) ==
    /\ sess[c].readyState = "CONNECTING"
    /\ Done(PeerOnOpen([Cur EXCEPT !.sess[c].readyState = "OPEN"],
                       sess[c].owner, c, FreshChallenge(c)),
            Event("open", c, NoBuffer))

\* a message arrives on an open session
Receive(c, buffer, budget) ==
    /\ sess[c].readyState = "OPEN"
    /\ received < budget
    /\ LET st == [Cur EXCEPT !.received = received + 1]
       IN  Done(IF sess[c].dialed
                THEN PeerOnMessage(st, sess[c].owner, c, buffer)
                ELSE AdapterOnMessage(st, sess[c].owner, c, buffer),
                Event("message", c, buffer))

EnvReceive(c, inputs, budget) == \E buffer \in inputs : Receive(c, buffer, budget)

\* the close event of a session: after this node's close(), after the remote
\* end closed, or when a dial fails
OnClose(st, c) ==
    IF st.sess[c].dialed
    THEN PeerOnClose(st, st.sess[c].owner, c)
    ELSE AdapterOnClose(st, st.sess[c].owner, c)

CloseEvent(c) ==
    /\ sess[c].readyState \in {"CONNECTING", "OPEN", "CLOSING"}
    /\ Done(OnClose([Cur EXCEPT !.sess[c].readyState = "CLOSED"], c),
            Event("close", c, NoBuffer))

\* a setTimeout callback runs at its deadline
TimerFire(t) ==
    /\ t \in DOMAIN timers
    /\ timers[t].remaining = 0
    /\ Done(QueryTimeout([Cur EXCEPT !.timers = MapDelete(@, t)],
                         timers[t].node, timers[t].target),
            Event("timeout", NoConn, NoBuffer))

TickMs == QUERY_TIMEOUT_MS \div 2

\* time passes (it is kept as the time each armed timer has left); a due
\* timer runs before the clock moves on
Tick ==
    /\ DOMAIN timers # {}
    /\ \A t \in DOMAIN timers : timers[t].remaining > 0
    /\ Done([Cur EXCEPT !.timers = [t \in DOMAIN timers |->
                                       [timers[t] EXCEPT !.remaining = @ - TickMs]]],
            Event("tick", NoConn, NoBuffer))

\* The events of node 1 other than the arrival of a message
Internal ==
    \/ Accept(1)
    \/ StartSeed(1)
    \/ \E c \in Sessions : DialOpen(c)
    \/ \E c \in Sessions : CloseEvent(c)
    \/ \E t \in DOMAIN timers : TimerFire(t)
    \/ Tick
    \/ Settle

\* Handshake and directories
Next ==
    \/ \E c \in Sessions : EnvReceive(c, DirectoryInputs(c), MaxFrames)
    \/ Internal

Spec == Init /\ [][Next]_vars

\* Data routing and the location service
NextRouting ==
    \/ \E c \in Sessions : EnvReceive(c, RoutingInputs(c), MaxFrames)
    \/ Internal

SpecRouting == Init /\ [][NextRouting]_vars

\* Delivery across two relays, seen from either of them
NextFederation ==
    \/ \E c \in Sessions : EnvReceive(c, FederationInputs(c), MaxFedFrames)
    \/ Internal

SpecFederation == Init /\ [][NextFederation]_vars

\* Peer discovery: a dialed seed and an advertised relay prove their keys and the
\* seed advertises further relays
AdvertLists ==
    {<<Advert(KQ, AddrX)>>,
     <<Advert(KA, AddrY), Advert(ServerPublicKey(1), AddrX)>>,
     <<Advert(KQ, AddrY)>>,
     <<Advert(KQ, AddrX), Advert(KQ, AddrY)>>,
     <<Advert(KQ, UnknownAddr)>>}

\* no frame of this specification arms a timer
NextDiscovery ==
    LET
        DiscoveryInputs(c) ==
            {encodeFrame(f) : f \in {Proof(k, c) : k \in {KA, KP}}
                                     \cup {Frame(NODE_INFO, ResponseServers(entries), KP, ZeroSig) :
                                              entries \in AdvertLists}}
    IN
    \/ \E c \in Sessions : EnvReceive(c, DiscoveryInputs(c), MaxFedFrames)
    \/ Accept(1)
    \/ StartSeed(1)
    \/ \E c \in Sessions : DialOpen(c)
    \/ \E c \in Sessions : CloseEvent(c)
    \/ Settle

SpecDiscovery == Init /\ [][NextDiscovery]_vars

NextGate ==
    LET
        \* Frames before authentication and malformed handshakes
        GateInputs(c) ==
            {encodeFrame(f) : f \in {Proof(k, c) : k \in {KA, KP}}
                                     \cup {Frame(DATA, KA \o Hi, KB, ZeroSig),
                                           Frame(DATA, KX \o Hi, KA, ZeroSig),
                                           Frame(SIGNED_DATA, KA \o Hi, KB, Sign(KB, Hi)),
                                           Frame(NODE_INFO, <<NODE_INFO_REQUEST_SERVERS>>, KP, ZeroSig),
                                           Frame(NODE_INFO, ResponseServers(<<Advert(KQ, AddrY)>>),
                                                 KP, ZeroSig),
                                           Frame(NODE_INFO, <<NODE_INFO_ADD_SERVER, Len(AddrY)>> \o AddrY,
                                                 KA, ZeroSig),
                                           Frame(NODE_INFO, <<NODE_INFO_QUERY_CLIENT>> \o KA, KP, ZeroSig),
                                           Frame(NODE_INFO, <<NODE_INFO_QUERY_RESPONSE, 1>> \o KX \o KP,
                                                 KP, ZeroSig),
                                           Frame(HANDSHAKE, <<>>, KA, ZeroSig),
                                           Frame(HANDSHAKE, <<2>>, KA, ZeroSig),
                                           Frame(HANDSHAKE, KA \o <<1>>, KA, Sign(KA, KA \o <<1>>))}}
    IN
    \/ \E c \in Sessions : EnvReceive(c, GateInputs(c), MaxFrames)
    \/ Internal

SpecGate == Init /\ [][NextGate]_vars

AnswerReceive(c) ==
    LET
        \* the history after a handler ran: a new pending entry is followed, an entry
        \* whose frame was sent on to a relay is dropped
        Track(st, before) ==
            LET after == st.pendingQueries[1]
                created == (DOMAIN after) \ (DOMAIN before)
                forwarded == {k \in DOMAIN st.parked :
                                \E i \in 1..Len(st.out) :
                                   /\ st.out[i].op = "send"
                                   /\ st.out[i].frame = Frame(DATA, st.parked[k].frame.payload,
                                                              st.parked[k].frame.senderId, Undefined)}
            IN  [st EXCEPT !.parked =
                    [k \in ((DOMAIN st.parked) \ forwarded) \cup created |->
                        IF k \in created
                        THEN [frame |-> after[k].frame, left |-> QUERY_TIMEOUT_MS]
                        ELSE st.parked[k]]]
        \* Answers to a query. The seed relay (key KP, at AddrX) advertises a second
        \* relay (key KA, at AddrY); both are dialed and attached, the second relays a
        \* frame for KX, and each answers the query for KX. `parked` follows each parked
        \* frame from its query to its forwarding or its deadline.
        AnswerInputs ==
            {encodeFrame(f) : f \in
                IF sess[c].address = AddrX
                THEN {Proof(KP, c),
                      Frame(NODE_INFO, ResponseServers(<<Advert(KA, AddrY)>>), KP, ZeroSig),
                      Frame(NODE_INFO, <<NODE_INFO_QUERY_RESPONSE, 1>> \o KX \o KP, KP, ZeroSig)}
                ELSE {Proof(KA, c),
                      Frame(DATA, KX \o Hi, KA, ZeroSig),
                      Frame(NODE_INFO, <<NODE_INFO_QUERY_RESPONSE, 0>> \o KX, KA, ZeroSig)}}
    IN
    \E buffer \in AnswerInputs :
        /\ sess[c].readyState = "OPEN"
        /\ received < MaxAnswerFrames
        /\ LET st == [Cur EXCEPT !.received = received + 1]
           IN  Done(Track(IF sess[c].dialed
                          THEN PeerOnMessage(st, sess[c].owner, c, buffer)
                          ELSE AdapterOnMessage(st, sess[c].owner, c, buffer),
                          pendingQueries[1]),
                    Event("message", c, buffer))

\* time passes for the armed timers and for the followed frames alike; a
\* followed frame is dropped at its deadline
AnswerTick ==
    /\ DOMAIN timers # {} \/ DOMAIN parked # {}
    /\ \A t \in DOMAIN timers : timers[t].remaining > 0
    /\ Done([Cur EXCEPT
               !.timers = [t \in DOMAIN timers |->
                              [timers[t] EXCEPT !.remaining = @ - TickMs]],
               !.parked = [k \in {h \in DOMAIN parked : parked[h].left > TickMs} |->
                              [parked[k] EXCEPT !.left = @ - TickMs]]],
            Event("tick", NoConn, NoBuffer))

NextAnswers ==
    \/ \E c \in Sessions : AnswerReceive(c)
    \/ StartSeed(1)
    \/ \E c \in Sessions : DialOpen(c)
    \/ \E c \in Sessions : CloseEvent(c)
    \/ \E t \in DOMAIN timers : TimerFire(t)
    \/ AnswerTick
    \/ Settle

SpecAnswers == Init /\ [][NextAnswers]_vars

NextOwners ==
    LET
        \* The owner named by an answer. The seed relay (key KP, dialed at AddrX)
        \* attaches, relays a frame for KX and may have its session closed by a
        \* malformed handshake frame; a client (key KA) attaches on an accepted session
        \* and sends the answers: owner KP, an owner that is no peer, status 0, no owner
        \* field, a short owner field.
        OwnerInputs(c) ==
            {encodeFrame(f) : f \in
                IF sess[c].dialed
                THEN {Proof(KP, c),
                      Frame(DATA, KX \o Hi, KA, ZeroSig),
                      Frame(HANDSHAKE, <<2>>, KP, ZeroSig)}
                ELSE {Proof(KA, c),
                      Frame(NODE_INFO, <<NODE_INFO_QUERY_RESPONSE, 1>> \o KX \o KP, KA, ZeroSig),
                      Frame(NODE_INFO, <<NODE_INFO_QUERY_RESPONSE, 1>> \o KX \o KQ, KA, ZeroSig),
                      Frame(NODE_INFO, <<NODE_INFO_QUERY_RESPONSE, 0>> \o KX \o KP, KA, ZeroSig),
                      Frame(NODE_INFO, <<NODE_INFO_QUERY_RESPONSE, 1>> \o KX, KA, ZeroSig),
                      Frame(NODE_INFO, <<NODE_INFO_QUERY_RESPONSE, 1>> \o KX \o Hi, KA, ZeroSig)}}
    IN
    \/ \E c \in Sessions : EnvReceive(c, OwnerInputs(c), MaxOwnerFrames)
    \/ Internal

SpecOwners == Init /\ [][NextOwners]_vars

NextListing ==
    LET
        \* The list of known relays. A relay (key KP) attaches on the dialed session,
        \* advertises relays, this node among them, and asks for this node's list.
        ListingInputs(c) ==
            {encodeFrame(f) : f \in
                {Proof(KP, c),
                 Frame(NODE_INFO, ResponseServers(<<Advert(KQ, AddrY),
                                                    Advert(ServerPublicKey(1), AddrX)>>),
                       KP, ZeroSig),
                 Frame(NODE_INFO, ResponseServers(<<Advert(ServerPublicKey(1), AddrY)>>),
                       KP, ZeroSig),
                 Frame(NODE_INFO, <<NODE_INFO_REQUEST_SERVERS>>, KP, ZeroSig)}}
    IN
    \/ \E c \in Sessions : EnvReceive(c, ListingInputs(c), MaxFrames)
    \/ Accept(1)
    \/ StartSeed(1)
    \/ \E c \in Sessions : DialOpen(c)
    \/ \E c \in Sessions : CloseEvent(c)
    \/ Settle

SpecListing == Init /\ [][NextListing]_vars

\* the same, with every event that can happen eventually happening: a handler
\* that was started runs to its end and the event loop goes on to the next event
SpecListingLive == SpecListing /\ WF_vars(NextListing)

MalformedInputs(c) ==
    LET
        \* Malformed payloads. A client (key KA) or a relay (key KP) attaches and sends
        \* payloads that are too short for their type or sub-type, or whose address
        \* length runs past the end; one list has a whole entry before a cut one.
        MalformedPayloads ==
            {<<>>,
             <<NODE_INFO_RESPONSE_SERVERS, 0>>,
             <<NODE_INFO_RESPONSE_SERVERS, 0, 1>> \o KQ,
             <<NODE_INFO_RESPONSE_SERVERS, 0, 1>> \o KQ \o <<9>> \o AddrX,
             <<NODE_INFO_RESPONSE_SERVERS, 0, 2>> \o KQ \o <<1>> \o AddrY \o KB \o <<5>> \o AddrX,
             <<NODE_INFO_ADD_SERVER>>,
             <<NODE_INFO_ADD_SERVER, 9>> \o AddrY,
             <<NODE_INFO_QUERY_CLIENT>> \o Hi,
             <<NODE_INFO_QUERY_RESPONSE, 1>>,
             <<NODE_INFO_QUERY_RESPONSE, 1>> \o SubSeq(KX, 1, KEY_LEN - 1)}
    IN
    {encodeFrame(f) : f \in {Proof(k, c) : k \in {KA, KP}}
                             \cup {Frame(DATA, Hi, KA, ZeroSig),
                                   Frame(SIGNED_DATA, SubSeq(KB, 1, KEY_LEN - 1), KA,
                                         Sign(KA, Hi)),
                                   Frame(DATA, KX \o Hi, KA, ZeroSig)}
                             \cup {Frame(NODE_INFO, p, KP, ZeroSig) : p \in MalformedPayloads}}

NextMalformed ==
    \/ \E c \in Sessions : EnvReceive(c, MalformedInputs(c), MaxFrames)
    \/ Internal

SpecMalformed == Init /\ [][NextMalformed]_vars

\* Asynchronous handlers. The 'message' callback and every handler below it are
\* async functions: a call runs to its first `await` inside the callback, and
\* what follows an `await` runs later as a continuation, after the callbacks of
\* the messages that arrived in the same read. Every handler does all of its
\* work before its first `await` (verify, the repositories and send are
\* synchronous); what follows each `await` is the return to the caller.

\* the number of `await`s the handling of a buffer returns through: the
\* callback's `await dispatch`, dispatch's `await handle`, and the handler's
\* `await` of the function it delegates to
Awaits(st, n, c, buffer) ==
    IF ~decodeOk(buffer) THEN 0
    ELSE LET frame == decodeFrame(buffer)
             payload == frame.payload
             authenticated == \/ ClientRepoGetByConnection(st, n, c) # Undefined
                              \/ ServerRepoGetByConnection(st, n, c) # Undefined
         IN  IF frame.type = HANDSHAKE
             THEN IF Len(payload) = KEY_LEN \/ payload = <<1>> THEN 3 ELSE 2
             ELSE IF frame.type \in {DATA, SIGNED_DATA}
             THEN IF /\ authenticated
                     /\ Len(payload) >= KEY_LEN
                     /\ ClientRepoGet(st, n, ToHex(Slice(payload, 0, KEY_LEN))) = Undefined
                  THEN 3 ELSE 2
             ELSE IF frame.type = NODE_INFO
             THEN IF authenticated /\ Len(payload) > 0
                     /\ payload[1] \in {NODE_INFO_REQUEST_SERVERS, NODE_INFO_RESPONSE_SERVERS,
                                        NODE_INFO_ADD_SERVER, NODE_INFO_QUERY_CLIENT,
                                        NODE_INFO_QUERY_RESPONSE}
                  THEN IF payload[1] = NODE_INFO_QUERY_RESPONSE THEN 4 ELSE 3
                  ELSE 2
             ELSE 1

Segment_VerifyAwaited(st, n, c, buffer, k) ==
    IF k = (IF decodeOk(buffer) /\ decodeFrame(buffer).type = HANDSHAKE THEN 1 ELSE 0)
    THEN IF st.sess[c].dialed THEN PeerOnMessage(st, n, c, buffer)
         ELSE AdapterOnMessage(st, n, c, buffer)
    ELSE st

\* what the handling of a buffer does after its k-th `await` (k = 0: from the
\* 'message' event to the first `await`)
Segment(st, n, c, buffer, k) ==
    IF k = 0
    THEN IF st.sess[c].dialed THEN PeerOnMessage(st, n, c, buffer)
         ELSE AdapterOnMessage(st, n, c, buffer)
    ELSE st

\* a segment changed the program's state or sent, closed or dialed something
Effect(before, after) ==
    \/ after.out # <<>>
    \/ after.sess # before.sess
    \/ after.pendingChallenges # before.pendingChallenges
    \/ after.clients # before.clients
    \/ after.clientConnectionToKey # before.clientConnectionToKey
    \/ after.peers # before.peers
    \/ after.peerConnectionToKey # before.peerConnectionToKey
    \/ after.pendingQueries # before.pendingQueries
    \/ after.timers # before.timers

\* the bookkeeping of a segment run for frame `seq` of session c
Ran(st, before, c, seq) ==
    [st EXCEPT !.loop.running = [conn |-> c, seq |-> seq, effect |-> Effect(before, st)],
               !.loop.acted[c] = IF Effect(before, st) THEN seq ELSE @]

\* a 'message' event: the callback runs to its first `await`. While
\* continuations wait, only a further message of the same read (the same
\* session) can be delivered.
AsyncReceive(c) ==
    LET
        AsyncInputs ==
            {encodeFrame(f) : f \in {Proof(KA, c),
                                     Frame(HANDSHAKE, <<2>>, KA, ZeroSig),
                                     Frame(DATA, KX \o Hi, KA, ZeroSig),
                                     Frame(DATA, KA \o Hi, KA, ZeroSig),
                                     Frame(NODE_INFO, <<NODE_INFO_REQUEST_SERVERS>>, KA, ZeroSig)}}
    IN
    \E buffer \in AsyncInputs :
        /\ sess[c].readyState = "OPEN"
        /\ received < MaxFrames
        /\ \A i \in 1..Len(loop.jobs) : loop.jobs[i].conn = c
        /\ LET seq == loop.arrived[c] + 1
               st0 == [Cur EXCEPT !.received = received + 1, !.loop.arrived[c] = seq]
               st1 == Segment(st0, sess[c].owner, c, buffer, 0)
               awaits == Awaits(st0, sess[c].owner, c, buffer)
               st2 == IF awaits > 0
                      THEN [st1 EXCEPT !.loop.jobs =
                               Append(@, [conn |-> c, buffer |-> buffer, seq |-> seq,
                                          k |-> 1, awaits |-> awaits])]
                      ELSE st1
           IN  Done(Ran(st2, st0, c, seq), Event("message", c, buffer))

\* the continuation at the head of the queue runs: the code after the `await`
\* it waited at, up to the next `await`
Resume ==
    /\ loop.jobs # <<>>
    /\ LET job == Head(loop.jobs)
           st0 == [Cur EXCEPT !.loop.jobs = Tail(@)]
           st1 == Segment(st0, sess[job.conn].owner, job.conn, job.buffer, job.k)
           st2 == IF job.k < job.awaits
                  THEN [st1 EXCEPT !.loop.jobs = Append(@, [job EXCEPT !.k = @ + 1])]
                  ELSE st1
       IN  Done(Ran(st2, st0, job.conn, job.seq), Event("resume", job.conn, job.buffer))

NextAsync ==
    \/ \E c \in Sessions : AsyncReceive(c)
    \/ Resume
    \/ loop.jobs = <<>> /\ Internal
    \/ Settle

SpecAsync == Init /\ [][NextAsync]_vars

\* The client SDK's connection on its own: the application connects,
\* disconnects and sends; sockets open, deliver the relay's frames and close.

\* Client.connect -> WebSocketConnectionManager.connect: one socket per
\* connection promise
ClientConnect ==
    /\ Len(sdk.sockets) < MaxSockets
    /\ sdk' = IF sdk.connectionPromise
              THEN [sdk EXCEPT !.call = [op |-> "connect", outcome |-> "existing",
                                         socket |-> sdk.ws]]
              ELSE [sdk EXCEPT !.sockets = Append(@, "CONNECTING"),
                               !.connectionPromise = TRUE,
                               !.call = [op |-> "connect", outcome |-> "new",
                                         socket |-> Len(sdk.sockets) + 1]]
    /\ UNCHANGED <<sess, pendingChallenges, clients, clientConnectionToKey, peers,
                   peerConnectionToKey, pendingQueries, timers, received, out, last, wire,
                   parked, loop, mgr>>

\* ws.onopen of socket k
SocketOpens ==
    \E k \in DOMAIN sdk.sockets :
        /\ sdk.sockets[k] = "CONNECTING"
        /\ sdk' = [sdk EXCEPT !.sockets[k] = "OPEN", !.ws = k, !.call = NoCall]
        /\ UNCHANGED <<sess, pendingChallenges, clients, clientConnectionToKey, peers,
                       peerConnectionToKey, pendingQueries, timers, received, out, last,
                       wire, parked, loop, mgr>>

\* ws.onmessage of socket k: decodeFrame, then MessageHandler.handleFrame, which
\* changes the handler's state in handleHandshake only
SocketMessage ==
    \E k \in DOMAIN sdk.sockets,
       buffer \in {encodeFrame(Frame(HANDSHAKE, FreshChallenge(1), ZeroKey, Undefined)),
                   encodeFrame(Confirmation(1)),
                   encodeFrame(Frame(HANDSHAKE, <<2>>, ServerPublicKey(1), Undefined)),
                   encodeFrame(Frame(DATA, KA \o Hi, KB, Undefined))} :
        /\ sdk.sockets[k] = "OPEN"
        /\ LET frame == decodeFrame(buffer)
           IN  sdk' = IF ~decodeOk(buffer) \/ frame.type # HANDSHAKE
                      THEN [sdk EXCEPT !.call = NoCall]
                      ELSE IF Len(frame.payload) = KEY_LEN /\ frame.signature = ZeroSig
                      THEN SdkSend([sdk EXCEPT !.pendingChallenge = frame.payload],
                                   "handshakeResponse")
                      ELSE IF Len(frame.payload) = 1 /\ frame.payload[1] = 1
                              /\ frame.signature = ZeroSig
                      THEN [sdk EXCEPT !.handshakeCompleted = TRUE,
                                       !.confirmed = @ \cup {k},
                                       !.call = NoCall]
                      ELSE [sdk EXCEPT !.call = NoCall]
        /\ UNCHANGED <<sess, pendingChallenges, clients, clientConnectionToKey, peers,
                       peerConnectionToKey, pendingQueries, timers, received, out, last,
                       wire, parked, loop, mgr>>

\* ws.onclose of socket k (after an error, the far end's close, or disconnect)
SocketCloses ==
    \E k \in DOMAIN sdk.sockets :
        /\ sdk.sockets[k] # "CLOSED"
        /\ sdk' = [sdk EXCEPT !.sockets[k] = "CLOSED", !.ws = 0,
                              !.connectionPromise = FALSE, !.call = NoCall]
        /\ UNCHANGED <<sess, pendingChallenges, clients, clientConnectionToKey, peers,
                       peerConnectionToKey, pendingQueries, timers, received, out, last,
                       wire, parked, loop, mgr>>

\* Client.disconnect -> WebSocketConnectionManager.disconnect
ClientDisconnect ==
    /\ sdk' = IF sdk.ws # 0
              THEN [sdk EXCEPT !.sockets[sdk.ws] = "CLOSING", !.ws = 0,
                               !.connectionPromise = FALSE,
                               !.call = [op |-> "disconnect", outcome |-> "closed",
                                         socket |-> sdk.ws]]
              ELSE [sdk EXCEPT !.call = [op |-> "disconnect", outcome |-> "none",
                                         socket |-> 0]]
    /\ UNCHANGED <<sess, pendingChallenges, clients, clientConnectionToKey, peers,
                   peerConnectionToKey, pendingQueries, timers, received, out, last, wire,
                   parked, loop, mgr>>

\* MessageHandler.sendData / sendSigned as a call of the application
ClientSend ==
    \E op \in {"sendData", "sendSigned"} :
        /\ sdk' = IF ~sdk.handshakeCompleted
                  THEN [sdk EXCEPT !.call = [op |-> op,
                                             outcome |-> "Handshake not completed",
                                             socket |-> sdk.ws]]
                  ELSE SdkSend(sdk, op)
        /\ UNCHANGED <<sess, pendingChallenges, clients, clientConnectionToKey, peers,
                       peerConnectionToKey, pendingQueries, timers, received, out, last,
                       wire, parked, loop, mgr>>

NextSdk ==
    \/ ClientConnect
    \/ SocketOpens
    \/ SocketMessage
    \/ SocketCloses
    \/ ClientDisconnect
    \/ ClientSend

SpecSdk == Init /\ [][NextSdk]_vars

\* LocalServerManager on its own: the storage holds a list and a selection from
\* an earlier run; operations are started at any time and each resumes, after
\* the await it waits in, in any later turn of the event loop
InitManager ==
    /\ sess = [c \in Sessions |-> NoSession]
    /\ pendingChallenges = EmptyMap
    /\ clients = [n \in Nodes |-> EmptyMap]
    /\ clientConnectionToKey = EmptyMap
    /\ peers = [n \in Nodes |-> <<>>]
    /\ peerConnectionToKey = EmptyMap
    /\ pendingQueries = [n \in Nodes |-> EmptyMap]
    /\ timers = EmptyMap
    /\ received = 0
    /\ out = <<>>
    /\ last = Event("idle", NoConn, NoBuffer)
    /\ wire = NoWire
    /\ parked = EmptyMap
    /\ loop = NoLoop
    /\ sdk = NoSdk
    /\ \E storage \in
           {[servers |-> NoItem, selected |-> NullItem],
            [servers |-> Item(<<"ws://a">>), selected |-> NullItem],
            [servers |-> Item(<<"ws://a">>), selected |-> "ws://a"],
            [servers |-> Item(<<"ws://a", "ws://b">>), selected |-> "ws://a"],
            [servers |-> Item(<<"ws://a", "ws://b">>), selected |-> "ws://b"]} :
           mgr = [NoMgr EXCEPT !.storage = storage, !.stored = storage.servers.list]

\* a call of addServer, removeServer or setSelectedServer: the operation runs
\* ensureLoaded up to its await, where the two getItem calls read the storage
\* (LocalStorageStorage.getItem reads before it returns its promise)
MgrCall ==
    \E kind \in {"add", "remove", "select"}, address \in {"ws://a", "ws://b", NullItem} :
        /\ Len(mgr.ops) < MaxOps
        /\ address = NullItem => kind = "select"
        /\ mgr' = [mgr EXCEPT !.ops = Append(@,
                      [kind |-> kind, address |-> address,
                       pc |-> IF mgr.loaded THEN "loaded" ELSE "load",
                       saved |-> IF mgr.loaded THEN NoItem ELSE mgr.storage.servers,
                       savedSelected |-> IF mgr.loaded THEN NullItem
                                         ELSE mgr.storage.selected,
                       inner |-> NullItem])]
        /\ UNCHANGED <<sess, pendingChallenges, clients, clientConnectionToKey, peers,
                       peerConnectionToKey, pendingQueries, timers, received, out, last,
                       wire, parked, loop, sdk>>

\* the continuation of operation i after the await it is waiting in
MgrResume ==
    \E i \in DOMAIN mgr.ops :
        /\ mgr.ops[i].pc \notin {"done", "rejected"}
        /\ LET op == mgr.ops[i]
           IN  mgr' =
                 CASE op.pc = "load" -> ensureLoaded(mgr, i)
                   [] op.pc = "loaded" /\ op.kind = "add" -> addServer(mgr, i)
                   [] op.pc = "loaded" /\ op.kind = "remove" -> removeServer(mgr, i)
                   [] op.pc = "loaded" /\ op.kind = "select" ->
                          setSelectedServer(mgr, i, op.address, "stored")
                   [] op.pc = "innerLoaded" ->
                          setSelectedServer(mgr, i, op.inner, "innerStored")
                   [] op.pc = "innerStored" -> [mgr EXCEPT !.ops[i].pc = "innerDone"]
                   [] op.pc = "innerDone" -> saveServers(mgr, i)
                   [] op.pc = "saving" -> [mgr EXCEPT !.ops[i].pc = "saved"]
                   [] OTHER -> [mgr EXCEPT !.ops[i].pc = "done"]
        /\ UNCHANGED <<sess, pendingChallenges, clients, clientConnectionToKey, peers,
                       peerConnectionToKey, pendingQueries, timers, received, out, last,
                       wire, parked, loop, sdk>>

NextManager ==
    \/ MgrCall
    \/ MgrResume

SpecManager == InitManager /\ [][NextManager]_vars

\* The codec on its own: a frame is encoded, the buffer may differ from the
\* encoded bytes when it arrives, and decodeFrame is applied to it
CodecEncode(f) ==
    /\ wire.stage = "none"
    /\ wire' = [wire EXCEPT !.stage = "encoded", !.frame = f, !.buffer = encodeFrameBytes(f)]
    /\ UNCHANGED <<sess, pendingChallenges, clients, clientConnectionToKey, peers,
                   peerConnectionToKey, pendingQueries, timers, received, out, last, parked, loop, sdk, mgr>>

CodecTamper(how) ==
    /\ wire.stage = "encoded"
    /\ wire.tampering = "none"
    /\ how = "length - 1" => Len(wire.frame.payload) > 0
    /\ wire' = [wire EXCEPT !.tampering = how, !.buffer = Tampered(wire.buffer, how)]
    /\ UNCHANGED <<sess, pendingChallenges, clients, clientConnectionToKey, peers,
                   peerConnectionToKey, pendingQueries, timers, received, out, last, parked, loop, sdk, mgr>>

CodecDecode ==
    /\ wire.stage = "encoded"
    /\ wire' = [wire EXCEPT !.stage = "decoded",
                            !.error = decodeError(wire.buffer),
                            !.decoded = IF decodeError(wire.buffer) = "none"
                                        THEN decodeFrameBytes(wire.buffer)
                                        ELSE wire.decoded]
    /\ UNCHANGED <<sess, pendingChallenges, clients, clientConnectionToKey, peers,
                   peerConnectionToKey, pendingQueries, timers, received, out, last, parked, loop, sdk, mgr>>

NextCodec ==
    LET
        Tamperings == {"cut header", "drop last byte", "magic", "version", "version 0",
                       "length + 1", "length - 1", "length + 2^24", "extra byte"}
    IN
    \/ \E f \in CodecFrames : CodecEncode(f)
    \/ \E how \in Tamperings : CodecTamper(how)
    \/ CodecDecode

SpecCodec == Init /\ [][NextCodec]_vars

----------------------------------------------------------------------------
\* Vocabulary of the properties

LastFrame == decodeFrame(last.buffer)
GotFrame == last.kind = "message" /\ decodeOk(last.buffer)

\* the keys (hex) whose client or peer record of node n has session c attached
ClientKeysOf(cl, c) == {k \in DOMAIN cl : cl[k].connection = c}
PeerKeysOf(pr, c) == {pr[i].key : i \in {j \in 1..Len(pr) : pr[j].value.connection = c}}
AttachedKeys(cl, pr, c) == ClientKeysOf(cl, c) \cup PeerKeysOf(pr, c)

IsProofFor(frame, c) ==
    /\ frame.type = HANDSHAKE
    /\ Verify(frame.senderId, frame.payload, frame.signature)
    /\ frame.payload = FreshChallenge(c)

\* C1: a session gets attached to a record under key K only in the step that
\* handles a HANDSHAKE received on that same session, signed by K over the
\* challenge the node issued on that session (so a proof made for another
\* session's challenge attaches nothing).
C1_AttachOnlyByOwnProof ==
    [][\A c \in Sessions :
         \A k \in AttachedKeys(clients'[1], peers'[1], c) \ AttachedKeys(clients[1], peers[1], c) :
            /\ last'.kind = "message"
            /\ last'.conn = c
            /\ decodeOk(last'.buffer)
            /\ IsProofFor(decodeFrame(last'.buffer), c)
            /\ ToHex(decodeFrame(last'.buffer).senderId) = k]_vars

\* a proof that was accepted on session 1 has just been replayed on session 2
C1_Witness ==
    /\ GotFrame
    /\ last.conn = 2
    /\ LastFrame = Proof(KA, 1)
    /\ AttachedKeys(clients[1], peers[1], 1) = {ToHex(KA)}
    /\ AttachedKeys(clients[1], peers[1], 2) = {}
    /\ sess[2].readyState = "CLOSING"

\* C2: on an inbound, unclassified session a HANDSHAKE whose 32-byte payload is
\* the recorded challenge, validly signed by its sender_id K, K having no peer
\* record, installs the client record K -> this session, classifies the session
\* as client and sends exactly one frame: the confirmation, on that session.
C2_ClientHandshake ==
    [][(/\ last'.kind = "message"
        /\ decodeOk(last'.buffer)
        /\ ~sess[last'.conn].dialed
        /\ sess[last'.conn].peerType = "unset"
        /\ decodeFrame(last'.buffer).type = HANDSHAKE
        /\ Len(decodeFrame(last'.buffer).payload) = KEY_LEN
        /\ MapGetBytes(pendingChallenges, last'.conn) = decodeFrame(last'.buffer).payload
        /\ Verify(decodeFrame(last'.buffer).senderId, decodeFrame(last'.buffer).payload,
                  decodeFrame(last'.buffer).signature)
        /\ ~OMapHas(peers[1], ToHex(decodeFrame(last'.buffer).senderId)))
       => (/\ MapGet(clients'[1], ToHex(decodeFrame(last'.buffer).senderId))
                = ClientInfo(decodeFrame(last'.buffer).senderId, last'.conn)
           /\ MapGetBytes(clientConnectionToKey', last'.conn)
                = ToHex(decodeFrame(last'.buffer).senderId)
           /\ sess'[last'.conn].peerType = "client"
           /\ out' = <<Sent(last'.conn,
                            Frame(HANDSHAKE, <<1>>, ServerPublicKey(1), Undefined))>>)]_vars

\* a client has just authenticated on session 2 while another one holds session 1
C2_Witness ==
    /\ GotFrame
    /\ last.conn = 2
    /\ LastFrame = Proof(KB, 2)
    /\ MapGet(clients[1], ToHex(KB)) = ClientInfo(KB, 2)
    /\ MapGet(clients[1], ToHex(KA)) = ClientInfo(KA, 1)
    /\ Len(out) = 1

\* C3: a signed 32-byte HANDSHAKE whose signature is invalid, or whose payload
\* is not the challenge recorded for the session (or none is recorded), closes
\* the session, changes neither directory, no other session's challenge and no
\* pending query, and sends nothing.
C3_RejectedHandshake ==
    [][(/\ last'.kind = "message"
        /\ decodeOk(last'.buffer)
        /\ decodeFrame(last'.buffer).type = HANDSHAKE
        /\ Len(decodeFrame(last'.buffer).payload) = KEY_LEN
        /\ decodeFrame(last'.buffer).signature # ZeroSig
        /\ \/ decodeFrame(last'.buffer).signature.signer # decodeFrame(last'.buffer).senderId
           \/ decodeFrame(last'.buffer).signature.msg # decodeFrame(last'.buffer).payload
           \/ MapGetBytes(pendingChallenges, last'.conn) # decodeFrame(last'.buffer).payload)
       => (/\ sess'[last'.conn].readyState = "CLOSING"
           /\ clients' = clients
           /\ clientConnectionToKey' = clientConnectionToKey
           /\ peers' = peers
           /\ peerConnectionToKey' = peerConnectionToKey
           /\ \A d \in Sessions \ {last'.conn} :
                 MapGetBytes(pendingChallenges', d) = MapGetBytes(pendingChallenges, d)
           /\ pendingQueries' = pendingQueries
           /\ timers' = timers
           /\ out' = <<>>)]_vars

\* a validly signed proof of the wrong challenge has just been refused on a
\* session whose challenge is still recorded, while a client is authenticated
C3_Witness ==
    /\ GotFrame
    /\ LastFrame = Proof(KA, 1)
    /\ last.conn = 2
    /\ MapGetBytes(pendingChallenges, 2) = FreshChallenge(2)
    /\ sess[2].readyState = "CLOSING"
    /\ DOMAIN clients[1] # {}
    /\ out = <<>>

\* C4: in every reachable state each public key has at most one local-client
\* record and at most one peer record, and no key has both a local-client
\* record and a peer record.
C4_OneRolePerKey ==
    /\ \A i, j \in 1..Len(peers[1]) : peers[1][i].key = peers[1][j].key => i = j
    /\ \A i \in 1..Len(peers[1]) : ToHex(peers[1][i].value.publicKey) = peers[1][i].key
    /\ \A k \in DOMAIN clients[1] : ToHex(clients[1][k].publicKey) = k
    /\ \A k \in DOMAIN clients[1] : ~OMapHas(peers[1], k)

\* the records of a directory that have session c attached
ClientRecordsOn(c) == {clients[1][k] : k \in {h \in DOMAIN clients[1] : clients[1][h].connection = c}}
PeerRecordsOn(c) ==
    {peers[1][i].value : i \in {j \in 1..Len(peers[1]) : peers[1][j].value.connection = c}}

C5_ClientIndexAgrees ==
    \A c \in Sessions :
        LET r == ClientRepoGetByConnection(Cur, 1, c)
        IN  /\ r # Undefined => r \in ClientRecordsOn(c) /\ sess[c].peerType = "client"
            /\ \A q \in ClientRecordsOn(c) : sess[c].peerType = "client" => r = q

C5_PeerIndexAgrees ==
    \A c \in Sessions :
        LET r == ServerRepoGetByConnection(Cur, 1, c)
        IN  /\ r # Undefined => r \in PeerRecordsOn(c)
            /\ \A q \in PeerRecordsOn(c) : r = q

\* C5: in every reachable state the directories and their reverse indexes
\* agree: the lookup by session S in the local-client directory returns record
\* R exactly when S is classified client and R.session = S, and the lookup by
\* session S in the peer directory returns R exactly when R has S attached (so
\* a session replaced by a re-authentication of its key resolves to no record).
C5_IndexesAgree == C5_ClientIndexAgrees /\ C5_PeerIndexAgrees

\* C10: the step that handles the close event of a session, inbound or dialed,
\* leaves no local-client record referencing the session and no peer record
\* with it attached, and does not change the pending-query table.
C10_CloseDetaches ==
    [][last'.kind = "close"
       => (/\ AttachedKeys(clients'[1], peers'[1], last'.conn) = {}
           /\ pendingQueries' = pendingQueries)]_vars

\* the same for the sessions this node dialed only
C10_DialedCloseDetaches ==
    [][last'.kind = "close" /\ sess[last'.conn].dialed
       => (/\ \A i \in 1..Len(peers'[1]) : peers'[1][i].value.connection # last'.conn
           /\ pendingQueries' = pendingQueries)]_vars

\* C6: a DATA frame of at least 32 payload bytes, received on a session attached
\* to a client or peer record, whose addressee (the first 32 payload bytes) has
\* a local-client record with an open session, makes the node send exactly one
\* frame: DATA to the addressee's session, with the sender_id of the input and
\* the input's payload without its first 32 bytes; no pending query is created
\* and nothing is broadcast.
C6_LocalDelivery ==
    [][(/\ last'.kind = "message"
        /\ decodeOk(last'.buffer)
        /\ decodeFrame(last'.buffer).type = DATA
        /\ Len(decodeFrame(last'.buffer).payload) >= KEY_LEN
        /\ AttachedKeys(clients[1], peers[1], last'.conn) # {}
        /\ \E k \in DOMAIN clients[1] :
              /\ k = ToHex(SubSeq(decodeFrame(last'.buffer).payload, 1, KEY_LEN))
              /\ sess[clients[1][k].connection].readyState = "OPEN")
       => (/\ Len(out') = 1
           /\ out'[1].op = "send"
           /\ out'[1].conn
                = clients[1][ToHex(SubSeq(decodeFrame(last'.buffer).payload, 1, KEY_LEN))].connection
           /\ out'[1].frame.type = DATA
           /\ out'[1].frame.senderId = decodeFrame(last'.buffer).senderId
           /\ SubSeq(decodeFrame(last'.buffer).payload, 1, KEY_LEN) \o out'[1].frame.payload
                = decodeFrame(last'.buffer).payload
           /\ pendingQueries' = pendingQueries
           /\ timers' = timers)]_vars

\* client KA on session 1 has just sent "hi" to client KB on session 2
C6_Witness ==
    /\ GotFrame
    /\ last.conn = 1
    /\ LastFrame.type = DATA
    /\ LastFrame.payload = KB \o Hi
    /\ LastFrame.senderId = KA
    /\ MapGet(clients[1], ToHex(KA)) = ClientInfo(KA, 1)
    /\ MapGet(clients[1], ToHex(KB)) = ClientInfo(KB, 2)
    /\ out = <<Sent(2, Frame(DATA, Hi, KA, Undefined))>>

\* the addressee (hex) of a DATA payload
AddresseeOf(payload) == ToHex(SubSeq(payload, 1, KEY_LEN))

\* C8: there is at most one pending query per addressee key (one held frame,
\* one armed timer), and a DATA frame from an authenticated session for a
\* non-local addressee that already has a pending entry changes nothing: the
\* table, the held frame and the timers stay as they are and no QUERY_CLIENT
\* is sent.
C8_OnePendingPerAddressee ==
    /\ [](\A t1, t2 \in DOMAIN timers :
             timers[t1].target = timers[t2].target => t1 = t2)
    /\ [][(/\ last'.kind = "message"
            /\ decodeOk(last'.buffer)
            /\ decodeFrame(last'.buffer).type = DATA
            /\ Len(decodeFrame(last'.buffer).payload) >= KEY_LEN
            /\ AttachedKeys(clients[1], peers[1], last'.conn) # {}
            /\ AddresseeOf(decodeFrame(last'.buffer).payload) \notin DOMAIN clients[1]
            /\ AddresseeOf(decodeFrame(last'.buffer).payload) \in DOMAIN pendingQueries[1])
           => (/\ pendingQueries' = pendingQueries
               /\ timers' = timers
               /\ out' = <<>>
               /\ UNCHANGED <<sess, pendingChallenges, clients, clientConnectionToKey,
                              peers, peerConnectionToKey>>)]_vars

\* a second DATA for KX has just arrived half-way through the window of the
\* query the first one started, with a peer connected to ask
C8_Witness ==
    /\ GotFrame
    /\ LastFrame.type = DATA
    /\ Len(LastFrame.payload) >= KEY_LEN
    /\ AddresseeOf(LastFrame.payload) = ToHex(KX)
    /\ MapHas(pendingQueries[1], ToHex(KX))
    /\ \A t \in DOMAIN timers : timers[t].remaining = QUERY_TIMEOUT_MS - TickMs
    /\ Cardinality(DOMAIN timers) = 1
    /\ \E i \in 1..Len(peers[1]) :
          /\ peers[1][i].value.connection # NoConn
          /\ sess[peers[1][i].value.connection].readyState = "OPEN"
    /\ out = <<>>

\* a QUERY_RESPONSE payload that names addressee h
NamesAddressee(payload, h) ==
    /\ Len(payload) >= 1 + 1 + KEY_LEN
    /\ payload[1] = NODE_INFO_QUERY_RESPONSE
    /\ ToHex(SubSeq(payload, 3, 2 + KEY_LEN)) = h

\* C9: every pending query has its own timer armed and not past its deadline,
\* and every armed timer belongs to the entry now in the table for its
\* addressee (so a timer never outlives its entry to remove a later one); an
\* entry leaves the table only in the step of its own timer at the deadline or
\* in the step that handles a QUERY_RESPONSE naming its addressee, and that
\* step disarms its timer.
C9_RemovedOnce ==
    /\ [](/\ \A h \in DOMAIN pendingQueries[1] :
               /\ pendingQueries[1][h].timer \in DOMAIN timers
               /\ timers[pendingQueries[1][h].timer].target = h
               /\ timers[pendingQueries[1][h].timer].remaining >= 0
               /\ timers[pendingQueries[1][h].timer].remaining <= QUERY_TIMEOUT_MS
           /\ \A t \in DOMAIN timers :
               /\ timers[t].target \in DOMAIN pendingQueries[1]
               /\ pendingQueries[1][timers[t].target].timer = t)
    /\ [][\A h \in DOMAIN pendingQueries[1] :
             (h \notin DOMAIN pendingQueries'[1] \/ pendingQueries'[1][h] # pendingQueries[1][h])
             => /\ h \notin DOMAIN pendingQueries'[1]
                /\ pendingQueries[1][h].timer \notin DOMAIN timers'
                /\ \/ /\ last'.kind = "timeout"
                      /\ timers[pendingQueries[1][h].timer].remaining = 0
                   \/ /\ last'.kind = "message"
                      /\ decodeOk(last'.buffer)
                      /\ decodeFrame(last'.buffer).type = NODE_INFO
                      /\ NamesAddressee(decodeFrame(last'.buffer).payload, h)]_vars

\* a QUERY_RESPONSE naming KX has just consumed the pending query for KX half-way
\* through its window: the held frame went to the peer and no timer is left
C9_Witness ==
    /\ GotFrame
    /\ LastFrame.type = NODE_INFO
    /\ NamesAddressee(LastFrame.payload, ToHex(KX))
    /\ pendingQueries[1] = EmptyMap
    /\ timers = EmptyMap
    /\ Len(out) = 1
    /\ out[1].frame.type = DATA
    /\ out[1].frame.payload = KX \o Hi

\* the open sessions attached to peer records
OpenPeerSessions ==
    {peers[1][i].value.connection :
        i \in {j \in 1..Len(peers[1]) :
                  /\ peers[1][j].value.connection # NoConn
                  /\ sess[peers[1][j].value.connection].readyState = "OPEN"}}

\* the sender's relay parks the frame and asks every connected peer
C7_ParkAndQuery ==
    [][(/\ last'.kind = "message"
        /\ decodeOk(last'.buffer)
        /\ decodeFrame(last'.buffer).type = DATA
        /\ Len(decodeFrame(last'.buffer).payload) >= KEY_LEN
        /\ ClientKeysOf(clients[1], last'.conn) # {}
        /\ AddresseeOf(decodeFrame(last'.buffer).payload) \notin DOMAIN clients[1]
        /\ AddresseeOf(decodeFrame(last'.buffer).payload) \notin DOMAIN pendingQueries[1]
        /\ OpenPeerSessions # {})
       => (/\ AddresseeOf(decodeFrame(last'.buffer).payload) \in DOMAIN pendingQueries'[1]
           /\ LET held == pendingQueries'[1][AddresseeOf(decodeFrame(last'.buffer).payload)].frame
              IN  /\ held.type = DATA
                  /\ held.payload = decodeFrame(last'.buffer).payload
                  /\ held.senderId = decodeFrame(last'.buffer).senderId
           /\ Len(out') = Cardinality(OpenPeerSessions)
           /\ \A s \in OpenPeerSessions : \E i \in 1..Len(out') :
                 out'[i] = Sent(s, Frame(NODE_INFO,
                                         <<NODE_INFO_QUERY_CLIENT>>
                                            \o SubSeq(decodeFrame(last'.buffer).payload, 1, KEY_LEN),
                                         ServerPublicKey(1), Undefined)))]_vars

\* the addressee's relay answers the query with status 1, the key asked for and
\* its own key
C7_AnswerFound ==
    [][(/\ last'.kind = "message"
        /\ decodeOk(last'.buffer)
        /\ decodeFrame(last'.buffer).type = NODE_INFO
        /\ Len(decodeFrame(last'.buffer).payload) = 1 + KEY_LEN
        /\ decodeFrame(last'.buffer).payload[1] = NODE_INFO_QUERY_CLIENT
        /\ AttachedKeys(clients[1], peers[1], last'.conn) # {}
        /\ ToHex(SubSeq(decodeFrame(last'.buffer).payload, 2, 1 + KEY_LEN)) \in DOMAIN clients[1])
       => out' = <<Sent(last'.conn,
                        Frame(NODE_INFO,
                              <<NODE_INFO_QUERY_RESPONSE, 1>>
                                 \o SubSeq(decodeFrame(last'.buffer).payload, 2, 1 + KEY_LEN)
                                 \o ServerPublicKey(1),
                              ServerPublicKey(1), Undefined))>>]_vars

\* the sender's relay forwards the parked frame to the relay named in the answer
C7_ForwardParked ==
    [][(/\ last'.kind = "message"
        /\ decodeOk(last'.buffer)
        /\ decodeFrame(last'.buffer).type = NODE_INFO
        /\ Len(decodeFrame(last'.buffer).payload) = 1 + 1 + KEY_LEN + KEY_LEN
        /\ decodeFrame(last'.buffer).payload[1] = NODE_INFO_QUERY_RESPONSE
        /\ decodeFrame(last'.buffer).payload[2] = 1
        /\ AttachedKeys(clients[1], peers[1], last'.conn) # {}
        /\ ToHex(SubSeq(decodeFrame(last'.buffer).payload, 3, 2 + KEY_LEN))
              \in DOMAIN pendingQueries[1]
        /\ \E i \in 1..Len(peers[1]) :
              /\ peers[1][i].key
                    = ToHex(SubSeq(decodeFrame(last'.buffer).payload, 3 + KEY_LEN, 2 + KEY_LEN + KEY_LEN))
              /\ peers[1][i].value.connection \in OpenPeerSessions)
       => (/\ Len(out') = 1
           /\ out'[1].op = "send"
           /\ \E i \in 1..Len(peers[1]) :
                 /\ peers[1][i].key
                       = ToHex(SubSeq(decodeFrame(last'.buffer).payload, 3 + KEY_LEN, 2 + KEY_LEN + KEY_LEN))
                 /\ out'[1].conn = peers[1][i].value.connection
           /\ LET held == pendingQueries[1][ToHex(SubSeq(decodeFrame(last'.buffer).payload,
                                                         3, 2 + KEY_LEN))].frame
              IN  out'[1].frame = Frame(DATA, held.payload, held.senderId, Undefined)
           /\ ToHex(SubSeq(decodeFrame(last'.buffer).payload, 3, 2 + KEY_LEN))
                 \notin DOMAIN pendingQueries'[1])]_vars

\* the addressee's relay delivers what a relay session brings, once, stripped
C7_DeliverOnce ==
    [][(/\ last'.kind = "message"
        /\ decodeOk(last'.buffer)
        /\ decodeFrame(last'.buffer).type = DATA
        /\ Len(decodeFrame(last'.buffer).payload) >= KEY_LEN
        /\ AttachedKeys(clients[1], peers[1], last'.conn) # {}
        /\ decodeFrame(last'.buffer).senderId \notin
              {clients[1][k].publicKey : k \in ClientKeysOf(clients[1], last'.conn)}
        /\ \E k \in DOMAIN clients[1] :
              /\ k = AddresseeOf(decodeFrame(last'.buffer).payload)
              /\ sess[clients[1][k].connection].readyState = "OPEN")
       => out' = <<Sent(clients[1][AddresseeOf(decodeFrame(last'.buffer).payload)].connection,
                        Frame(DATA,
                              SubSeq(decodeFrame(last'.buffer).payload, KEY_LEN + 1,
                                     Len(decodeFrame(last'.buffer).payload)),
                              decodeFrame(last'.buffer).senderId, Undefined))>>]_vars

C12_AddServerSelfIgnored ==
    [][(/\ last'.kind = "message"
        /\ decodeOk(last'.buffer)
        /\ decodeFrame(last'.buffer).type = NODE_INFO
        /\ decodeFrame(last'.buffer).payload
             = <<NODE_INFO_ADD_SERVER, Len(SelfUrl(1))>> \o SelfUrl(1))
       => (/\ \A i \in 1..Len(out') : out'[i].op # "dial"
           /\ peers' = peers)]_vars

\* no peer record carries the node's own listening URL as its address
C12_NoSelfAddressedRecord ==
    \A i \in 1..Len(peers[1]) : peers[1][i].value.address # SelfUrl(1)

\* C12: no peer record whose address is the node's own listening URL is ever
\* created (by a RESPONSE_SERVERS advertisement, by ADD_SERVER or by a
\* handshake), and an ADD_SERVER naming the own listening URL starts no dial.
C12_NeverPeerOfItself == []C12_NoSelfAddressedRecord /\ C12_AddServerSelfIgnored

----------------------------------------------------------------------------
\* C13: for every frame with a one-byte type, a 32-byte sender id, an optional
\* 64-byte signature and a payload, decoding the encoded frame gives back the
\* same type, payload and sender id, the same signature when it was given and
\* not zero, 64 zero bytes when it was omitted, and the encoded buffer is
\* exactly 120 + payload.length bytes long.
C13_RoundTrip ==
    (wire.stage = "decoded" /\ wire.tampering = "none") =>
        /\ wire.error = "none"
        /\ wire.decoded.type = wire.frame.type
        /\ wire.decoded.payload = wire.frame.payload
        /\ wire.decoded.senderId = wire.frame.senderId
        /\ (wire.frame.signature # NoBytes /\ wire.frame.signature # [i \in 1..64 |-> 0]
              => wire.decoded.signature = wire.frame.signature)
        /\ (wire.frame.signature = NoBytes => wire.decoded.signature = [i \in 1..64 |-> 0])
        /\ Len(wire.buffer) = 120 + Len(wire.frame.payload)

C13_Witness ==
    /\ wire.stage = "decoded" /\ wire.tampering = "none"
    /\ wire.frame.type = 255
    /\ Len(wire.frame.payload) = MaxPayloadLen
    /\ wire.frame.senderId = KA
    /\ wire.frame.signature = NoBytes
    /\ wire.decoded = Frame(255, wire.frame.payload, KA, [i \in 1..64 |-> 0])

\* C14: decodeFrame fails exactly when the buffer is shorter than 120 bytes, or
\* shorter than 120 plus the payload length read big-endian from bytes 4..7, or
\* byte 0 is not 0x58; a buffer with any version byte and a correct magic and
\* length decodes.
C14_DecodeFailsExactlyWhen ==
    wire.stage = "decoded" =>
        LET b == wire.buffer
            short == Len(b) < 120
            badMagic == ~short /\ b[1] # 88
            incomplete == ~short /\
                Len(b) < 120 + ((b[5] * 256 + b[6]) * 256 + b[7]) * 256 + b[8]
        IN  /\ (wire.error # "none") <=> (short \/ badMagic \/ incomplete)
            /\ wire.tampering \in {"version", "version 0"} =>
                  /\ b[2] # 1
                  /\ wire.error = "none"
                  /\ wire.decoded.payload = wire.frame.payload

C14_Witness ==
    /\ wire.stage = "decoded"
    /\ wire.tampering = "length + 1"
    /\ Len(wire.buffer) = 120 + MaxPayloadLen
    /\ wire.error = "incomplete frame"

\* C15: through the client SDK and one relay: when an authenticated client A
\* sends sendData(B, m) and B is authenticated on an open session of the same
\* relay, B's SDK emits exactly one 'message' event, from A's key and with
\* content m.
C15_SdkEndToEnd ==
    [][\A a, b \in {KA, KB} : \A m \in {Hi} :
         (/\ last'.kind = "message"
          /\ last'.buffer = encodeFrame(SdkSendData(a, b, m))
          /\ ClientKeysOf(clients[1], last'.conn) = {ToHex(a)}
          /\ MapHas(clients[1], ToHex(b))
          /\ sess[clients[1][ToHex(b)].connection].readyState = "OPEN")
         => SdkOnMessages(out', clients[1][ToHex(b)].connection, 1)
              = <<[event |-> "message", from |-> a, content |-> m]>>]_vars

\* what the code does with a message shorter than a key: the relay strips the
\* addressee and the SDK drops the rest as too short
C15_ShortMessageDropped ==
    [][(/\ last'.kind = "message"
        /\ last'.buffer = encodeFrame(SdkSendData(KA, KB, Hi))
        /\ ClientKeysOf(clients[1], last'.conn) = {ToHex(KA)}
        /\ MapHas(clients[1], ToHex(KB))
        /\ sess[clients[1][ToHex(KB)].connection].readyState = "OPEN")
       => (/\ out' = <<Sent(clients[1][ToHex(KB)].connection, Frame(DATA, Hi, KA, Undefined))>>
           /\ SdkOnMessages(out', clients[1][ToHex(KB)].connection, 1) = <<>>)]_vars

\* what a relay emits when a socket connects, inbound or dialed: its challenge,
\* with a zero sender id and no signature
C16_ChallengeOnConnect ==
    last.kind \in {"connection", "open"} =>
        out = <<Sent(last.conn, Frame(HANDSHAKE, FreshChallenge(last.conn), ZeroKey, Undefined))>>

\* C16: when relay N1 dials relay N2, both running this relay, each side emits
\* its challenge on connect and neither side closes the session because of the
\* other's unsigned challenge: the side that receives the encoded challenge of
\* a relay on an open session, dialed or inbound, keeps the session open and
\* answers with the challenge signed under its own key.
C16_UnsignedChallengeAnswered ==
    [][\A ch \in {FreshChallenge(c) : c \in Sessions} :
         (/\ last'.kind = "message"
          /\ last'.buffer = encodeFrame(Frame(HANDSHAKE, ch, ZeroKey, Undefined))
          /\ sess[last'.conn].readyState = "OPEN")
         => (/\ sess'[last'.conn].readyState = "OPEN"
             /\ out' = <<Sent(last'.conn,
                              Frame(HANDSHAKE, ch, ServerPublicKey(1),
                                    Sign(ServerPublicKey(1), ch)))>>)]_vars

\* what the code does with the challenge of another relay: the decoded frame
\* always carries 64 signature bytes, so the challenge is taken for a proof,
\* fails verification and the session is closed, on the dialing side and on
\* the accepting side alike
C16_UnsignedChallengeCloses ==
    [][\A ch \in {FreshChallenge(c) : c \in Sessions} :
         (/\ last'.kind = "message"
          /\ last'.buffer = encodeFrame(Frame(HANDSHAKE, ch, ZeroKey, Undefined))
          /\ sess[last'.conn].readyState = "OPEN")
         => (/\ sess'[last'.conn].readyState = "CLOSING"
             /\ out' = <<>>
             /\ peers' = peers /\ clients' = clients)]_vars

\* the entries of an advertisement that name a key which is neither the node's
\* own nor in the directory `known` nor named by an earlier entry
RECURSIVE NewEntries(_, _, _)
NewEntries(entries, known, i) ==
    IF i > Len(entries) THEN <<>>
    ELSE IF ToHex(entries[i].publicKey) \in known \/ entries[i].publicKey = ServerPublicKey(1)
    THEN NewEntries(entries, known, i + 1)
    ELSE <<entries[i]>> \o NewEntries(entries, known \cup {ToHex(entries[i].publicKey)}, i + 1)

DialsOf(sent) == SelectSeq(sent, LAMBDA o : o.op = "dial")
DirectoryKeys(pr) == {pr[i].key : i \in 1..Len(pr)}

ConnectedAddresses(pr) ==
    {pr[i].value.address : i \in {j \in 1..Len(pr) : pr[j].value.connection # NoConn}}

C18_GateCloses ==
    [][(/\ last'.kind = "message"
        /\ decodeOk(last'.buffer)
        /\ \/ /\ decodeFrame(last'.buffer).type \in {DATA, SIGNED_DATA, NODE_INFO}
              /\ AttachedKeys(clients[1], peers[1], last'.conn) = {}
           \/ /\ decodeFrame(last'.buffer).type = HANDSHAKE
              /\ Len(decodeFrame(last'.buffer).payload) # 32
              /\ decodeFrame(last'.buffer).payload # <<1>>)
       => (/\ sess[last'.conn].readyState = "OPEN"
           /\ sess'[last'.conn].readyState = "CLOSING"
           /\ \A c \in Sessions : c # last'.conn => sess'[c] = sess[c]
           /\ out' = <<>>
           /\ pendingQueries' = pendingQueries
           /\ timers' = timers
           /\ clients' = clients
           /\ peers' = peers)]_vars

C18_Witness ==
    /\ GotFrame
    /\ LastFrame.type = SIGNED_DATA
    /\ last.conn = 2
    /\ sess[2].readyState = "CLOSING"
    /\ sess[1].readyState = "OPEN"
    /\ ClientKeysOf(clients[1], 1) = {ToHex(KA)}
    /\ AttachedKeys(clients[1], peers[1], 2) = {}
    /\ pendingQueries[1] = EmptyMap

\* C19: on a decoded inbound HANDSHAKE with a 32-byte payload and an all-zero
\* signature field, the node signs the payload with its private key and sends
\* HANDSHAKE(payload = the received payload, sender id = own key, signature =
\* proof) on that session, keeps the session open, and leaves its own recorded
\* challenge for that session and both directories unchanged.
C19_ZeroSignatureAnswered ==
    [][(/\ last'.kind = "message"
        /\ decodeOk(last'.buffer)
        /\ decodeFrame(last'.buffer).type = HANDSHAKE
        /\ Len(decodeFrame(last'.buffer).payload) = 32
        /\ decodeFrame(last'.buffer).signature = ZeroSig)
       => (/\ out' = <<Sent(last'.conn,
                            Frame(HANDSHAKE, decodeFrame(last'.buffer).payload,
                                  ServerPublicKey(1),
                                  Sign(ServerPublicKey(1), decodeFrame(last'.buffer).payload)))>>
           /\ sess'[last'.conn].readyState = "OPEN"
           /\ pendingChallenges' = pendingChallenges
           /\ clients' = clients
           /\ peers' = peers)]_vars

\* what the code does with it: the zero signature is a signature to the
\* handler, verification fails and the session is closed without an answer
C19_ZeroSignatureCloses ==
    [][(/\ last'.kind = "message"
        /\ decodeOk(last'.buffer)
        /\ decodeFrame(last'.buffer).type = HANDSHAKE
        /\ Len(decodeFrame(last'.buffer).payload) = 32
        /\ decodeFrame(last'.buffer).signature = ZeroSig)
       => (/\ out' = <<>>
           /\ sess'[last'.conn].readyState = "CLOSING"
           /\ pendingChallenges' = pendingChallenges
           /\ clients' = clients
           /\ peers' = peers)]_vars

\* the attached peer with an open session that answers on session c that the
\* addressee of the frame `entry` is its client
AnswersFound(pr, c, buffer, entry) ==
    \E i \in 1..Len(pr) :
        /\ pr[i].value.connection = c
        /\ decodeOk(buffer)
        /\ decodeFrame(buffer).type = NODE_INFO
        /\ decodeFrame(buffer).payload =
              <<NODE_INFO_QUERY_RESPONSE, 1>> \o SubSeq(entry.frame.payload, 1, KEY_LEN)
                  \o pr[i].value.publicKey

\* C20: if a pending entry exists for addressee A and, before its deadline, a
\* peer P with an open session answers QUERY_RESPONSE(status = 1, A, owner = P),
\* then the held frame is forwarded to P, whatever the order in which the
\* responses of the other queried peers (status = 0 included) are processed: a
\* frame parked for A and not forwarded since is forwarded when P's answer is
\* handled before the deadline.
C20_ForwardedInAnyOrder ==
    [][\A k \in DOMAIN parked :
         (/\ last'.kind = "message"
          /\ sess[last'.conn].readyState = "OPEN"
          /\ AnswersFound(peers[1], last'.conn, last'.buffer, parked[k]))
         => \E i \in 1..Len(out') :
               out'[i] = Sent(last'.conn, Frame(DATA, parked[k].frame.payload,
                                                parked[k].frame.senderId, Undefined))]_vars

\* C20 as the code has it: the first response handled for A consumes the entry;
\* when that response is P's status = 1 answer the held frame is forwarded to P,
\* and a response that finds no entry for its addressee changes nothing
C20_FirstAnswerWins ==
    [][/\ \A k \in DOMAIN pendingQueries[1] :
            (/\ last'.kind = "message"
             /\ sess[last'.conn].readyState = "OPEN"
             /\ AnswersFound(peers[1], last'.conn, last'.buffer, pendingQueries[1][k]))
            => /\ out' = <<Sent(last'.conn,
                                Frame(DATA, pendingQueries[1][k].frame.payload,
                                      pendingQueries[1][k].frame.senderId, Undefined))>>
               /\ pendingQueries'[1] = MapDelete(pendingQueries[1], k)
               /\ pendingQueries[1][k].timer \notin DOMAIN timers'
       /\ (/\ last'.kind = "message"
           /\ decodeOk(last'.buffer)
           /\ decodeFrame(last'.buffer).type = NODE_INFO
           /\ Len(decodeFrame(last'.buffer).payload) >= 2 + KEY_LEN
           /\ decodeFrame(last'.buffer).payload[1] = NODE_INFO_QUERY_RESPONSE
           /\ ToHex(SubSeq(decodeFrame(last'.buffer).payload, 3, 2 + KEY_LEN))
                 \notin DOMAIN pendingQueries[1]
           /\ AttachedKeys(clients[1], peers[1], last'.conn) # {})
          => (/\ out' = <<>>
              /\ pendingQueries' = pendingQueries
              /\ timers' = timers
              /\ sess' = sess)]_vars

C20_Witness ==
    /\ GotFrame
    /\ last.conn = 1
    /\ LastFrame.payload = <<NODE_INFO_QUERY_RESPONSE, 1>> \o KX \o KP
    /\ PeerKeysOf(peers[1], 1) = {ToHex(KP)}
    /\ PeerKeysOf(peers[1], 2) = {ToHex(KA)}
    /\ out = <<Sent(1, Frame(DATA, KX \o Hi, KA, Undefined))>>
    /\ pendingQueries[1] = EmptyMap
    /\ timers = EmptyMap

----------------------------------------------------------------------------
\* C21

\* the QUERY_RESPONSE a step handles, on a session with a key attached
IsQueryResponse(frame) ==
    /\ frame.type = NODE_INFO
    /\ Len(frame.payload) >= 1 + 1 + KEY_LEN
    /\ frame.payload[1] = NODE_INFO_QUERY_RESPONSE

\* the DATA frames a step sent
DataSends(sent) ==
    {i \in 1..Len(sent) : sent[i].op = "send" /\ sent[i].frame.type = DATA}

\* C21: a step that handles a QUERY_RESPONSE forwards at most one DATA frame;
\* when it forwards one, the entry for the response's addressee was pending
\* before the step, the frame is that entry's, and the entry is gone after the
\* step, so that no later response can forward it again; a response whose
\* addressee has no entry sends nothing and changes no state
C21_AtMostOneForward ==
    [][(/\ last'.kind = "message"
        /\ decodeOk(last'.buffer)
        /\ IsQueryResponse(decodeFrame(last'.buffer))
        /\ AttachedKeys(clients[1], peers[1], last'.conn) # {})
       => LET k == ToHex(SubSeq(decodeFrame(last'.buffer).payload, 3, 2 + KEY_LEN))
          IN  /\ Cardinality(DataSends(out')) <= 1
              /\ \A i \in DataSends(out') :
                    /\ k \in DOMAIN pendingQueries[1]
                    /\ out'[i].frame.payload = pendingQueries[1][k].frame.payload
                    /\ out'[i].frame.senderId = pendingQueries[1][k].frame.senderId
                    /\ out'[i].conn # NoConn
                    /\ PeerKeysOf(peers[1], out'[i].conn) # {}
              /\ k \notin DOMAIN pendingQueries'[1]
              /\ k \notin DOMAIN pendingQueries[1]
                    => /\ out' = <<>>
                       /\ pendingQueries' = pendingQueries
                       /\ timers' = timers
                       /\ clients' = clients
                       /\ peers' = peers
                       /\ clientConnectionToKey' = clientConnectionToKey
                       /\ peerConnectionToKey' = peerConnectionToKey
                       /\ pendingChallenges' = pendingChallenges
                       /\ sess' = sess]_vars

\* P's status = 1 answer for A is handled after the entry for A was consumed by
\* an earlier status = 0 answer: nothing is sent
C21_Witness ==
    /\ GotFrame
    /\ last.conn = 1
    /\ LastFrame.payload = <<NODE_INFO_QUERY_RESPONSE, 1>> \o KX \o KP
    /\ PeerKeysOf(peers[1], 1) = {ToHex(KP)}
    /\ ToHex(KX) \in DOMAIN parked
    /\ pendingQueries[1] = EmptyMap
    /\ out = <<>>

----------------------------------------------------------------------------
\* C22

\* the peer record an answer's owner field names, when the field is there in
\* full; Undefined otherwise
OwnerRecord(directory, payload) ==
    IF Len(payload) >= 1 + 1 + KEY_LEN + KEY_LEN
    THEN OMapGet(directory, ToHex(SubSeq(payload, 3 + KEY_LEN, 2 + KEY_LEN + KEY_LEN)))
    ELSE Undefined

\* C22: when a QUERY_RESPONSE is handled while an entry is pending for its
\* addressee, the entry and its timer are removed; exactly one DATA frame, with
\* the held payload (addressee included) and the held sender_id, is sent to the
\* owner's session when status = 1, the owner field is 32 bytes long and names a
\* peer record with an open session, and nothing is sent in every other case
C22_OwnerForward ==
    [][(/\ last'.kind = "message"
        /\ decodeOk(last'.buffer)
        /\ IsQueryResponse(decodeFrame(last'.buffer))
        /\ AttachedKeys(clients[1], peers[1], last'.conn) # {}
        /\ ToHex(SubSeq(decodeFrame(last'.buffer).payload, 3, 2 + KEY_LEN))
              \in DOMAIN pendingQueries[1])
       => LET payload == decodeFrame(last'.buffer).payload
              k == ToHex(SubSeq(payload, 3, 2 + KEY_LEN))
              entry == pendingQueries[1][k]
              owner == OwnerRecord(peers[1], payload)
          IN  /\ k \notin DOMAIN pendingQueries'[1]
              /\ entry.timer \notin DOMAIN timers'
              /\ IF /\ payload[2] = 1
                    /\ owner # Undefined
                    /\ owner.connection # NoConn
                    /\ sess[owner.connection].readyState = "OPEN"
                 THEN /\ out' = <<Sent(owner.connection,
                                       Frame(DATA, entry.frame.payload,
                                             entry.frame.senderId, Undefined))>>
                      /\ ToHex(SubSeq(out'[1].frame.payload, 1, KEY_LEN)) = k
                 ELSE out' = <<>>]_vars

\* the answer names P, whose session is open: the held frame went to P
C22_Witness ==
    /\ GotFrame
    /\ LastFrame.payload = <<NODE_INFO_QUERY_RESPONSE, 1>> \o KX \o KP
    /\ \E c \in Sessions :
          /\ PeerKeysOf(peers[1], c) = {ToHex(KP)}
          /\ out = <<Sent(c, Frame(DATA, KX \o Hi, KA, Undefined))>>
    /\ pendingQueries[1] = EmptyMap
    /\ timers = EmptyMap

\* the answer names P, whose session is closing: the entry is consumed and
\* nothing is sent
C22_WitnessOwnerClosed ==
    /\ GotFrame
    /\ LastFrame.payload = <<NODE_INFO_QUERY_RESPONSE, 1>> \o KX \o KP
    /\ \E c \in Sessions :
          /\ PeerKeysOf(peers[1], c) = {ToHex(KP)}
          /\ sess[c].readyState = "CLOSING"
    /\ out = <<>>
    /\ pendingQueries[1] = EmptyMap
    /\ timers = EmptyMap
    /\ received = MaxOwnerFrames

----------------------------------------------------------------------------
\* C23

\* a DATA or SIGNED_DATA frame that names an addressee
IsRoutable(frame) ==
    /\ frame.type \in {DATA, SIGNED_DATA}
    /\ Len(frame.payload) >= KEY_LEN

\* the addressee has a local-client record whose session is open
DeliverableLocally(directory, sessions, k) ==
    /\ k \in DOMAIN directory
    /\ sessions[directory[k].connection].readyState = "OPEN"

\* C23: a DATA or SIGNED_DATA frame from an authenticated session whose
\* addressee cannot be delivered to locally (no local-client record, or a record
\* whose session is no longer open) is handed to the location service: after
\* the step a query for the addressee is pending
C23_HandedOffWhenUndeliverable ==
    [][(/\ last'.kind = "message"
        /\ decodeOk(last'.buffer)
        /\ IsRoutable(decodeFrame(last'.buffer))
        /\ AttachedKeys(clients[1], peers[1], last'.conn) # {}
        /\ ~DeliverableLocally(clients[1], sess,
                               ToHex(SubSeq(decodeFrame(last'.buffer).payload, 1, KEY_LEN))))
       => ToHex(SubSeq(decodeFrame(last'.buffer).payload, 1, KEY_LEN))
             \in DOMAIN pendingQueries'[1]]_vars

\* what the code does: the hand-off happens exactly when there is no
\* local-client record; a frame for a record whose session is not open is
\* dropped, with nothing sent and nothing pending
C23_DroppedWhenSessionNotOpen ==
    [][(/\ last'.kind = "message"
        /\ decodeOk(last'.buffer)
        /\ IsRoutable(decodeFrame(last'.buffer))
        /\ AttachedKeys(clients[1], peers[1], last'.conn) # {})
       => LET k == ToHex(SubSeq(decodeFrame(last'.buffer).payload, 1, KEY_LEN))
          IN  IF k \notin DOMAIN clients[1]
              THEN k \in DOMAIN pendingQueries'[1]
              ELSE /\ pendingQueries' = pendingQueries
                   /\ sess[clients[1][k].connection].readyState # "OPEN" => out' = <<>>]_vars

----------------------------------------------------------------------------
\* C24

\* a step handled a DATA or SIGNED_DATA frame from an authenticated session
\* whose addressee has a local-client record with an open session
LocalDelivery ==
    /\ last'.kind = "message"
    /\ decodeOk(last'.buffer)
    /\ IsRoutable(decodeFrame(last'.buffer))
    /\ AttachedKeys(clients[1], peers[1], last'.conn) # {}
    /\ DeliverableLocally(clients[1], sess,
                          ToHex(SubSeq(decodeFrame(last'.buffer).payload, 1, KEY_LEN)))

\* C24: the frame delivered to a local addressee has the type of the frame
\* received: DATA is delivered as DATA, SIGNED_DATA as SIGNED_DATA
C24_TypeKept ==
    [][LocalDelivery
       => /\ Len(out') = 1
          /\ out'[1].op = "send"
          /\ out'[1].frame.type = decodeFrame(last'.buffer).type]_vars

\* what the code does: the frame delivered is always of type DATA, with the
\* payload after the addressee, the sender_id received and no signature
C24_DeliveredAsData ==
    [][LocalDelivery
       => LET frame == decodeFrame(last'.buffer)
          IN  out' = <<Sent(clients[1][ToHex(SubSeq(frame.payload, 1, KEY_LEN))].connection,
                            Frame(DATA, SubSeq(frame.payload, KEY_LEN + 1, Len(frame.payload)),
                                  frame.senderId, Undefined))>>]_vars

----------------------------------------------------------------------------
\* C25

\* C25: a QUERY_CLIENT with a full 32-byte target from an authenticated session
\* is answered with exactly one frame, a QUERY_RESPONSE on the session the query
\* arrived on: status 1, the target and this node's key when the target has a
\* local-client record, status 0 and the target alone otherwise; nothing else is
\* sent (no QUERY_CLIENT to a peer) and the pending-query table and its timers
\* stay as they are
C25_OneHopAnswer ==
    [][(/\ last'.kind = "message"
        /\ decodeOk(last'.buffer)
        /\ decodeFrame(last'.buffer).type = NODE_INFO
        /\ Len(decodeFrame(last'.buffer).payload) >= 1 + KEY_LEN
        /\ decodeFrame(last'.buffer).payload[1] = NODE_INFO_QUERY_CLIENT
        /\ AttachedKeys(clients[1], peers[1], last'.conn) # {})
       => LET target == SubSeq(decodeFrame(last'.buffer).payload, 2, 1 + KEY_LEN)
              answer == IF ToHex(target) \in DOMAIN clients[1]
                        THEN <<NODE_INFO_QUERY_RESPONSE, 1>> \o target \o ServerPublicKey(1)
                        ELSE <<NODE_INFO_QUERY_RESPONSE, 0>> \o target
          IN  /\ Len(out') = 1
              /\ out'[1].op = "send"
              /\ out'[1].conn = last'.conn
              /\ out'[1].frame.type = NODE_INFO
              /\ out'[1].frame.payload = answer
              /\ pendingQueries' = pendingQueries
              /\ timers' = timers]_vars

\* a peer asked for a key that has no local-client record: the answer is
\* status 0 without an owner, on the asking session alone
C25_Witness ==
    /\ GotFrame
    /\ LastFrame.type = NODE_INFO
    /\ LastFrame.payload = <<NODE_INFO_QUERY_CLIENT>> \o KA
    /\ ToHex(KA) \notin DOMAIN clients[1]
    /\ PeerKeysOf(peers[1], last.conn) # {}
    /\ out = <<Sent(last.conn, Frame(NODE_INFO, <<NODE_INFO_QUERY_RESPONSE, 0>> \o KA,
                                     ServerPublicKey(1), Undefined))>>

----------------------------------------------------------------------------
\* C26

\* the entries a RESPONSE_SERVERS payload lists, read from its bytes: 32 bytes
\* of key, one byte of length, the address; as many as fit whole
RECURSIVE ListedServers(_, _)
ListedServers(payload, offset) ==
    IF offset + KEY_LEN + 1 > Len(payload) THEN <<>>
    ELSE LET addrLen == payload[offset + KEY_LEN + 1]
         IN  IF offset + KEY_LEN + 1 + addrLen > Len(payload) THEN <<>>
             ELSE <<[publicKey |-> SubSeq(payload, offset + 1, offset + KEY_LEN),
                     address |-> SubSeq(payload, offset + KEY_LEN + 2,
                                        offset + KEY_LEN + 1 + addrLen)]>>
                  \o ListedServers(payload, offset + KEY_LEN + 1 + addrLen)

\* the address bytes of the entries from the i-th on, end to end
RECURSIVE ConcatAddresses(_, _)
ConcatAddresses(entries, i) ==
    IF i > Len(entries) THEN <<>>
    ELSE entries[i].address \o ConcatAddresses(entries, i + 1)

\* the peer-directory entries that have an address other than "unknown", in
\* the directory's order
AddressedPeers(directory) ==
    LET addressed == SelectSeq(directory,
                               LAMBDA e : e.value.address # <<>>
                                          /\ e.value.address # UnknownAddr)
    IN  [i \in 1..Len(addressed) |->
            [publicKey |-> addressed[i].value.publicKey,
             address |-> addressed[i].value.address]]

\* C26: the reply to a REQUEST_SERVERS from an authenticated session is one
\* RESPONSE_SERVERS on that session whose entries are exactly the peer-directory
\* entries with an address other than "unknown", whose count field is the number
\* of entries listed, and which does not list this node's own public key
C26_ListsAddressedPeers ==
    [][(/\ last'.kind = "message"
        /\ decodeOk(last'.buffer)
        /\ decodeFrame(last'.buffer).type = NODE_INFO
        /\ Len(decodeFrame(last'.buffer).payload) >= 1
        /\ decodeFrame(last'.buffer).payload[1] = NODE_INFO_REQUEST_SERVERS
        /\ AttachedKeys(clients[1], peers[1], last'.conn) # {})
       => /\ Len(out') = 1
          /\ out'[1].op = "send"
          /\ out'[1].conn = last'.conn
          /\ out'[1].frame.type = NODE_INFO
          /\ LET payload == out'[1].frame.payload
                 listed == ListedServers(payload, 3)
             IN  /\ payload[1] = NODE_INFO_RESPONSE_SERVERS
                 /\ listed = AddressedPeers(peers[1])
                 /\ payload[2] * 256 + payload[3] = Len(listed)
                 /\ Len(payload) = 3 + Len(listed) * (KEY_LEN + 1)
                                     + Len(ConcatAddresses(listed, 1))
                 /\ \A i \in 1..Len(listed) : listed[i].publicKey # ServerPublicKey(1)]_vars

\* the directory holds a peer without a known address and a peer with one; the
\* reply lists the second alone
C26_Witness ==
    /\ GotFrame
    /\ LastFrame.type = NODE_INFO
    /\ LastFrame.payload = <<NODE_INFO_REQUEST_SERVERS>>
    /\ \E i \in 1..Len(peers[1]) : peers[1][i].value.address = UnknownAddr
    /\ Len(out) = 1
    /\ out[1].op = "send"
    /\ out[1].frame.payload = <<NODE_INFO_RESPONSE_SERVERS, 0, 1>> \o KQ \o <<1>> \o AddrY

----------------------------------------------------------------------------
\* C27

\* a step handled a well-formed ADD_SERVER from an authenticated session
AddServerStep ==
    /\ last'.kind = "message"
    /\ decodeOk(last'.buffer)
    /\ decodeFrame(last'.buffer).type = NODE_INFO
    /\ Len(decodeFrame(last'.buffer).payload) >= 2
    /\ decodeFrame(last'.buffer).payload[1] = NODE_INFO_ADD_SERVER
    /\ Len(decodeFrame(last'.buffer).payload) >= 2 + decodeFrame(last'.buffer).payload[2]
    /\ AttachedKeys(clients[1], peers[1], last'.conn) # {}

\* the address an ADD_SERVER payload carries
AddedAddress(payload) == SubSeq(payload, 3, 2 + payload[2])

\* the addresses of the peer records
RecordedAddresses(pr) == {pr[i].value.address : i \in 1..Len(pr)}

\* the addresses this node dialed and at which a peer is authenticated on the
\* dialed session
EstablishedAddresses ==
    {sess[c].address : c \in {d \in Sessions : /\ sess[d].dialed
                                                /\ sess[d].readyState = "OPEN"
                                                /\ PeerKeysOf(peers[1], d) # {}}}

\* C27: a well-formed ADD_SERVER(addr) from an authenticated session starts one
\* dial to addr when addr is neither this node's URL nor the address of a peer
\* record and starts none otherwise, in particular none when addr was already
\* dialed and the peer there is authenticated; no frame is sent
C27_AddServerDials ==
    [][AddServerStep
       => LET addr == AddedAddress(decodeFrame(last'.buffer).payload)
          IN  /\ Len(DialsOf(out')) =
                    (IF addr # SelfUrl(1) /\ addr \notin RecordedAddresses(peers[1])
                     THEN 1 ELSE 0)
              /\ \A i \in 1..Len(DialsOf(out')) : DialsOf(out')[i].address = addr
              /\ addr \in EstablishedAddresses => DialsOf(out') = <<>>
              /\ Len(out') = Len(DialsOf(out'))]_vars

\* what the code does: the dial is decided by the addresses of the peer records
\* alone, and the record of a peer authenticated on a dialed session does not
\* hold the dialed address
C27_DialsUnlessRecorded ==
    [][AddServerStep
       => LET addr == AddedAddress(decodeFrame(last'.buffer).payload)
          IN  /\ Len(DialsOf(out')) =
                    (IF addr # SelfUrl(1) /\ addr \notin RecordedAddresses(peers[1])
                     THEN 1 ELSE 0)
              /\ \A i \in 1..Len(DialsOf(out')) : DialsOf(out')[i].address = addr
              /\ Len(out') = Len(DialsOf(out'))]_vars

----------------------------------------------------------------------------
\* C28

\* a step handled, on a session this node dialed, the proof for the challenge
\* pending on that session
DialedHandshake ==
    /\ last'.kind = "message"
    /\ decodeOk(last'.buffer)
    /\ sess[last'.conn].dialed
    /\ last'.conn \in DOMAIN pendingChallenges
    /\ IsProofFor(decodeFrame(last'.buffer), last'.conn)

\* C28: after a successful peer handshake on a session dialed at URL A, the
\* record of the authenticated key is attached to the session and has address A
\* when there was no record of the key, and its prior address when there was
\* one; a record made on a dialed session never has the address "unknown"
C28_DialedAddressRecorded ==
    [][DialedHandshake
       => LET k == ToHex(decodeFrame(last'.buffer).senderId)
          IN  /\ OMapHas(peers'[1], k)
              /\ OMapGet(peers'[1], k).connection = last'.conn
              /\ OMapGet(peers'[1], k).address =
                    (IF OMapHas(peers[1], k)
                     THEN OMapGet(peers[1], k).address
                     ELSE sess[last'.conn].address)]_vars

\* what the code does: a record made on a dialed session has the address
\* "unknown", whatever the URL dialed; an existing record keeps its address
C28_DialedRecordUnknown ==
    [][DialedHandshake
       => LET k == ToHex(decodeFrame(last'.buffer).senderId)
          IN  /\ OMapHas(peers'[1], k)
              /\ OMapGet(peers'[1], k).connection = last'.conn
              /\ OMapGet(peers'[1], k).address =
                    (IF OMapHas(peers[1], k)
                     THEN OMapGet(peers[1], k).address
                     ELSE UnknownAddr)]_vars

\* a key advertised at AddrY proved itself on the session dialed there: its
\* record kept the advertised address
C28_WitnessPriorAddress ==
    /\ GotFrame
    /\ sess[last.conn].dialed
    /\ IsProofFor(LastFrame, last.conn)
    /\ OMapHas(peers[1], ToHex(KA))
    /\ OMapGet(peers[1], ToHex(KA)).address = AddrY
    /\ OMapGet(peers[1], ToHex(KA)).connection = last.conn

----------------------------------------------------------------------------
\* C29

\* the step just taken authenticated a peer on session c: it handled the proof
\* for c's challenge, attached c to the peer record of the proving key and sent
\* the confirmation
NewPeerSession(c) ==
    /\ GotFrame
    /\ last.conn = c
    /\ IsProofFor(LastFrame, c)
    /\ PeerKeysOf(peers[1], c) = {ToHex(LastFrame.senderId)}
    /\ \E i \in 1..Len(out) : out[i] = Sent(c, Confirmation(1))

\* a NODE_INFO(REQUEST_SERVERS) frame is being sent on session c
RequestsServers(c) ==
    \E i \in 1..Len(out) :
       /\ out[i].op = "send"
       /\ out[i].conn = c
       /\ out[i].frame.type = NODE_INFO
       /\ Len(out[i].frame.payload) >= 1
       /\ out[i].frame.payload[1] = NODE_INFO_REQUEST_SERVERS

\* C29: every successful authentication of a new peer session, dialed or
\* inbound, is followed by the node sending NODE_INFO(REQUEST_SERVERS) on that
\* session
C29_RequestFollows ==
    \A c \in Sessions : NewPeerSession(c) ~> RequestsServers(c)

\* what the code does: the node never sends REQUEST_SERVERS on any session
C29_NeverRequests ==
    \A c \in Sessions : ~RequestsServers(c)

\* a peer was authenticated on a dialed session
C29_WitnessDialed ==
    \E c \in Sessions : NewPeerSession(c) /\ sess[c].dialed

\* a peer was authenticated on an inbound session
C29_WitnessInbound ==
    \E c \in Sessions : NewPeerSession(c) /\ ~sess[c].dialed

----------------------------------------------------------------------------
\* C30

\* a step received a buffer that decodeFrame rejects
UndecodableStep ==
    /\ last'.kind = "message"
    /\ ~decodeOk(last'.buffer)

\* the directories, their indexes, the pending queries and their timers, and
\* the pending challenges stay as they are
NothingRecorded ==
    /\ clients' = clients
    /\ clientConnectionToKey' = clientConnectionToKey
    /\ peers' = peers
    /\ peerConnectionToKey' = peerConnectionToKey
    /\ pendingQueries' = pendingQueries
    /\ timers' = timers
    /\ pendingChallenges' = pendingChallenges

\* C30: a received message that fails to decode closes the session it arrived
\* on, an inbound session and a session this node dialed alike, sends nothing
\* and changes no directory or pending-query state
C30_UndecodableCloses ==
    [][UndecodableStep
       => /\ sess[last'.conn].readyState = "OPEN"
          /\ sess'[last'.conn].readyState = "CLOSING"
          /\ \A i \in 1..Len(out') : out'[i].op # "send"
          /\ NothingRecorded]_vars

\* what the code does: the inbound session is closed; on a session this node
\* dialed the error is logged and the session stays open
C30_OnlyInboundCloses ==
    [][UndecodableStep
       => /\ sess'[last'.conn].readyState =
                (IF sess[last'.conn].dialed THEN "OPEN" ELSE "CLOSING")
          /\ \A c \in Sessions \ {last'.conn} : sess'[c] = sess[c]
          /\ \A i \in 1..Len(out') : out'[i].op # "send"
          /\ NothingRecorded]_vars

----------------------------------------------------------------------------
\* C31

\* a payload that is too short for its type or sub-type, or whose address
\* length exceeds the bytes that follow it
Malformed(frame) ==
    \/ frame.type \in {DATA, SIGNED_DATA} /\ Len(frame.payload) < KEY_LEN
    \/ /\ frame.type = NODE_INFO
       /\ \/ Len(frame.payload) = 0
          \/ /\ Len(frame.payload) >= 1
             /\ \/ /\ frame.payload[1] = NODE_INFO_RESPONSE_SERVERS
                   /\ Len(frame.payload) < 3
                \/ /\ frame.payload[1] = NODE_INFO_ADD_SERVER
                   /\ Len(frame.payload) < 2
                \/ /\ frame.payload[1] = NODE_INFO_ADD_SERVER
                   /\ Len(frame.payload) >= 2
                   /\ Len(frame.payload) < 2 + frame.payload[2]
                \/ /\ frame.payload[1] = NODE_INFO_QUERY_CLIENT
                   /\ Len(frame.payload) < 1 + KEY_LEN
                \/ /\ frame.payload[1] = NODE_INFO_QUERY_RESPONSE
                   /\ Len(frame.payload) < 1 + 1 + KEY_LEN

\* a RESPONSE_SERVERS list that announces more entries than it holds whole
CutList(frame) ==
    /\ frame.type = NODE_INFO
    /\ Len(frame.payload) >= 3
    /\ frame.payload[1] = NODE_INFO_RESPONSE_SERVERS
    /\ Len(ListedServers(frame.payload, 3)) < frame.payload[2] * 256 + frame.payload[3]

\* C31: a malformed payload from an authenticated session is dropped: the
\* session stays as it was, no frame is sent, no dial is started and no
\* directory, pending query, timer or challenge changes; of a list cut short
\* only the entries that are there whole are recorded and dialed, the cut part
\* adding no record and no dial, and the session stays open with nothing sent
C31_MalformedDropped ==
    [][(/\ last'.kind = "message"
        /\ decodeOk(last'.buffer)
        /\ AttachedKeys(clients[1], peers[1], last'.conn) # {})
       => LET frame == decodeFrame(last'.buffer)
              whole == ListedServers(frame.payload, 3)
          IN  /\ Malformed(frame)
                    => /\ sess' = sess
                       /\ out' = <<>>
                       /\ NothingRecorded
              /\ CutList(frame)
                    => /\ sess'[last'.conn] = sess[last'.conn]
                       /\ \A i \in 1..Len(out') :
                             /\ out'[i].op = "dial"
                             /\ \E j \in 1..Len(whole) : out'[i].address = whole[j].address
                       /\ DirectoryKeys(peers'[1]) \ DirectoryKeys(peers[1])
                             \subseteq {ToHex(whole[j].publicKey) : j \in 1..Len(whole)}
                       /\ clients' = clients
                       /\ pendingQueries' = pendingQueries
                       /\ timers' = timers]_vars

\* an ADD_SERVER whose address length runs past the end of the payload was
\* handled on a peer's open session: nothing was sent or dialed
C31_Witness ==
    /\ GotFrame
    /\ LastFrame.type = NODE_INFO
    /\ LastFrame.payload = <<NODE_INFO_ADD_SERVER, 9>> \o AddrY
    /\ PeerKeysOf(peers[1], last.conn) # {}
    /\ sess[last.conn].readyState = "OPEN"
    /\ out = <<>>

\* a list with one whole entry and one cut entry was handled on a peer's
\* session: the whole entry alone was recorded
C31_WitnessCutList ==
    /\ GotFrame
    /\ CutList(LastFrame)
    /\ PeerKeysOf(peers[1], last.conn) # {}
    /\ ToHex(KQ) \in DirectoryKeys(peers[1])
    /\ ToHex(KB) \notin DirectoryKeys(peers[1])
    /\ sess[last.conn].readyState = "OPEN"

----------------------------------------------------------------------------
\* C32

\* C32: frames received on one session take effect in arrival order: when any
\* part of the handling of frame k of a session changes a directory, a
\* challenge, a pending query or a session, or sends, no later frame of that
\* session has had such an effect yet
C32_ArrivalOrder ==
    [][(/\ last'.kind \in {"message", "resume"}
        /\ loop'.running.effect)
       => loop.acted[loop'.running.conn] <= loop'.running.seq]_vars

\* a frame was handled while the continuation of the session's previous frame
\* had not run yet, and both had an effect
C32_Witness ==
    /\ last.kind = "message"
    /\ loop.running.effect
    /\ loop.running.seq = 2
    /\ \E i \in 1..Len(loop.jobs) :
          /\ loop.jobs[i].conn = loop.running.conn
          /\ loop.jobs[i].seq = 1
    /\ ClientKeysOf(clients[1], loop.running.conn) = {ToHex(KA)}
    /\ DOMAIN pendingQueries[1] = {ToHex(KX)}

----------------------------------------------------------------------------
\* C33

\* C33: a QUERY_RESPONSE that arrives on a session authenticated as a local
\* client (attached to a client record and to no peer record) removes no
\* pending-query entry and causes no DATA frame to be forwarded
C33_OnlyPeersAnswer ==
    [][(/\ last'.kind = "message"
        /\ decodeOk(last'.buffer)
        /\ IsQueryResponse(decodeFrame(last'.buffer))
        /\ ClientKeysOf(clients[1], last'.conn) # {}
        /\ PeerKeysOf(peers[1], last'.conn) = {})
       => /\ pendingQueries' = pendingQueries
          /\ DataSends(out') = {}]_vars

----------------------------------------------------------------------------
\* C34

\* a step handled a DATA or SIGNED_DATA frame with an addressee on a session
\* authenticated as a client
ClientDataStep ==
    /\ last'.kind = "message"
    /\ decodeOk(last'.buffer)
    /\ IsRoutable(decodeFrame(last'.buffer))
    /\ ClientKeysOf(clients[1], last'.conn) # {}

\* the sender_ids of the frames a step delivered, and of the frames it parked
EmittedSenders ==
    {out'[i].frame.senderId : i \in DataSends(out')}
    \cup {pendingQueries'[1][k].frame.senderId :
             k \in (DOMAIN pendingQueries'[1]) \ (DOMAIN pendingQueries[1])}

\* C34: every frame the node delivers to a local client or parks on behalf of
\* a session authenticated as client with key K carries sender_id = K
C34_SenderIsAuthenticated ==
    [][ClientDataStep
       => \A s \in EmittedSenders : ToHex(s) \in ClientKeysOf(clients[1], last'.conn)]_vars

\* C34 as the code has it: every frame the node delivers to a local client or
\* parks on behalf of a client session carries the sender_id of the frame it
\* received, whatever key the session is authenticated under
C34_SenderPreserved ==
    [][ClientDataStep
       => /\ \A s \in EmittedSenders : s = decodeFrame(last'.buffer).senderId
          /\ (\/ DeliverableLocally(clients[1], sess,
                     ToHex(SubSeq(decodeFrame(last'.buffer).payload, 1, KEY_LEN)))
              \/ ToHex(SubSeq(decodeFrame(last'.buffer).payload, 1, KEY_LEN))
                    \notin (DOMAIN clients[1]) \cup (DOMAIN pendingQueries[1]))
                => EmittedSenders # {}]_vars

\* the client authenticated as KB had a frame delivered that names KA as its
\* sender
C34_Witness ==
    /\ GotFrame
    /\ ClientKeysOf(clients[1], last.conn) = {ToHex(KB)}
    /\ LastFrame.senderId = KA
    /\ \E i \in 1..Len(out) : /\ out[i].op = "send"
                              /\ out[i].frame.type = DATA
                              /\ out[i].frame.senderId = KA

----------------------------------------------------------------------------
\* C35

\* C35: the close event of a dialed session leaves every peer record that is
\* attached to another session as it is, in the directory and in the index of
\* that session; in particular the record of a key that re-authenticated on a
\* newer session survives the close of the session it superseded
C35_SupersededCloseKeepsRecord ==
    [][(/\ last'.kind = "close"
        /\ sess[last'.conn].dialed)
       => \A i \in 1..Len(peers[1]) :
             LET record == peers[1][i].value
             IN  (record.connection # NoConn /\ record.connection # last'.conn)
                 => /\ OMapGet(peers'[1], peers[1][i].key) = record
                    /\ MapGetBytes(peerConnectionToKey', record.connection)
                          = MapGetBytes(peerConnectionToKey, record.connection)]_vars

\* the dialed session on which KP first authenticated has closed after KP
\* re-authenticated on the second session: KP's record is attached to the second
C35_Witness ==
    /\ last.kind = "close"
    /\ last.conn = 1
    /\ sess[1].dialed
    /\ MapGetBytes(peerConnectionToKey, 1) = ToHex(KP)
    /\ OMapHas(peers[1], ToHex(KP))
    /\ OMapGet(peers[1], ToHex(KP)).connection = 2
    /\ sess[2].readyState = "OPEN"

----------------------------------------------------------------------------
\* C36

\* C36: once a session has authenticated, its challenge is no longer recorded,
\* and any later HANDSHAKE with a 32-byte payload on that session - a replay of
\* the accepted proof, a proof under another key, a bad signature - puts the
\* session into closing, sends nothing and leaves both directories and their
\* indexes as they are; no session is ever attached to more than one key
C36_AuthenticatesOnce ==
    [][/\ \A c \in Sessions :
             /\ AttachedKeys(clients[1], peers[1], c) # {} => c \notin DOMAIN pendingChallenges
             /\ Cardinality(AttachedKeys(clients'[1], peers'[1], c)) <= 1
       /\ (/\ last'.kind = "message"
           /\ decodeOk(last'.buffer)
           /\ decodeFrame(last'.buffer).type = HANDSHAKE
           /\ Len(decodeFrame(last'.buffer).payload) = KEY_LEN
           /\ AttachedKeys(clients[1], peers[1], last'.conn) # {})
          => /\ sess'[last'.conn].readyState = "CLOSING"
             /\ \A i \in 1..Len(out') : out'[i].op # "send"
             /\ clients' = clients
             /\ peers' = peers
             /\ clientConnectionToKey' = clientConnectionToKey
             /\ peerConnectionToKey' = peerConnectionToKey]_vars

\* the proof that authenticated KA on the session was received again: the
\* session is closing and still KA's
C36_Witness ==
    /\ GotFrame
    /\ LastFrame = Proof(KA, last.conn)
    /\ sess[last.conn].readyState = "CLOSING"
    /\ AttachedKeys(clients[1], peers[1], last.conn) = {ToHex(KA)}
    /\ \A i \in 1..Len(out) : out[i].op # "send"

----------------------------------------------------------------------------
\* C37

\* a step handled, on a session attached to a peer record, a DATA or
\* SIGNED_DATA frame whose addressee has no local-client record and no pending
\* query: the location service broadcasts a query
PeerDataQueried ==
    /\ last'.kind = "message"
    /\ decodeOk(last'.buffer)
    /\ IsRoutable(decodeFrame(last'.buffer))
    /\ PeerKeysOf(peers[1], last'.conn) # {}
    /\ ToHex(SubSeq(decodeFrame(last'.buffer).payload, 1, KEY_LEN))
          \notin (DOMAIN clients[1]) \cup (DOMAIN pendingQueries[1])

\* the sessions a step sent a QUERY_CLIENT on
QueriedSessions ==
    {out'[i].conn : i \in {j \in 1..Len(out') :
                              /\ out'[j].op = "send"
                              /\ out'[j].frame.type = NODE_INFO
                              /\ out'[j].frame.payload[1] = NODE_INFO_QUERY_CLIENT}}

\* C37: the QUERY_CLIENT broadcast triggered by a DATA frame that arrived on a
\* peer session P goes to every other open peer session and not to P
C37_NotBackToSender ==
    [][PeerDataQueried => QueriedSessions = OpenPeerSessions \ {last'.conn}]_vars

\* C37 as the code has it: the query goes to every open peer session, P
\* included
C37_BackToSender ==
    [][PeerDataQueried
       => /\ QueriedSessions = OpenPeerSessions
          /\ last'.conn \in QueriedSessions]_vars

\* relay P sent a frame for X on its open session: the query for X went back
\* to P on that session
C37_Witness ==
    /\ GotFrame
    /\ LastFrame.type = DATA
    /\ PeerKeysOf(peers[1], last.conn) = {ToHex(KP)}
    /\ sess[last.conn].readyState = "OPEN"
    /\ out = <<Sent(last.conn, Frame(NODE_INFO, <<NODE_INFO_QUERY_CLIENT>> \o KX,
                                     ServerPublicKey(1), Undefined))>>

----------------------------------------------------------------------------
\* C38

\* the handshake confirmation [0x01] has arrived on socket k
ConfirmedOn(k) == k # 0 /\ k \in sdk.confirmed

\* C38: sendData and sendSigned succeed, and Client.isConnected() is true, only
\* if the handshake confirmation has been received on the connection in use
C38_OnlyAfterConfirmation ==
    /\ (sdk.call.op \in {"sendData", "sendSigned"} /\ sdk.call.outcome = "sent")
           => ConfirmedOn(sdk.call.socket)
    /\ ClientIsConnected(sdk) => ConfirmedOn(sdk.ws)

----------------------------------------------------------------------------
\* C39

\* every operation that was started has settled
MgrSettled == \A i \in DOMAIN mgr.ops : mgr.ops[i].pc \in {"done", "rejected"}

\* C39: once all started operations have completed, the selected server is
\* null or a member of the server list, and no removeServer call has rejected
C39_SelectionValid ==
    /\ MgrSettled => (mgr.selected = NullItem \/ Includes(mgr.servers, mgr.selected))
    /\ \A i \in DOMAIN mgr.ops :
           mgr.ops[i].kind = "remove" => mgr.ops[i].pc # "rejected"

----------------------------------------------------------------------------
\* C40

\* the number of times x is in the list
Occurrences(list, x) == Cardinality({j \in DOMAIN list : list[j] = x})

\* the operations started are addServer calls with distinct addresses
AddsOnly ==
    /\ mgr.ops # <<>>
    /\ \A i \in DOMAIN mgr.ops : mgr.ops[i].kind = "add"
    /\ \A i, j \in DOMAIN mgr.ops : i # j => mgr.ops[i].address # mgr.ops[j].address

\* C40: after concurrently started addServer calls with distinct addresses have
\* all completed, every added address and every address stored before is in the
\* list in memory and in the persisted list exactly once
C40_AddsKept ==
    (AddsOnly /\ MgrSettled) =>
        \A x \in {mgr.ops[i].address : i \in DOMAIN mgr.ops}
                 \cup {mgr.stored[j] : j \in DOMAIN mgr.stored} :
            /\ Occurrences(mgr.servers, x) = 1
            /\ Occurrences(mgr.storage.servers.list, x) = 1

====
